---- MODULE Spec2Model ----
(***************************************************************************)
(* Model of the rover's control and tracking loop (PhilSchi/ps-bot):       *)
(* PersonFollowCoordinator with its PanTracker, TargetFollower and         *)
(* PIDControllers, the shared DesiredDriveState, the DesiredStateUpdater   *)
(* axis mapper and the PersonDetector's published detection list; the      *)
(* actuator loops (CrawlerController, PiCarController) that push the       *)
(* desired state to hardware; and the RobotSocketServer with its serving   *)
(* thread, its stop() call and its clients.                                *)
(*                                                                         *)
(* Number representation (the code uses floats; the model uses exact       *)
(* integers on a grid on which every operation of the code is exact):      *)
(*   - percentages (drive, steer, pan, tilt, positions): whole percent;    *)
(*   - PID errors / deviations: hundredths (deviation 0.6 is 60);          *)
(*   - Detection x, w, h: percent of the frame (x = 0.7 is 70);            *)
(*   - raw joystick axis values: thousandths (0.5 is 500);                 *)
(*   - elapsed time between two PID updates: whole time units, an input    *)
(*     (time.monotonic() differences are decided by the scheduler);        *)
(*     PID integrals are hundredths x time units.                          *)
(*   - bytes on the wire: 0..255; an axis argument value / 1000 is the     *)
(*     fraction <<numerator, denominator>>.                                *)
(***************************************************************************)
EXTENDS Integers, Sequences, FiniteSets, TLC

VARIABLES
    active,          \* PersonFollowCoordinator._active
    scanning,        \* PersonFollowCoordinator._scanning
    scan_position,   \* PersonFollowCoordinator._scan_position
    scan_direction,  \* PersonFollowCoordinator._scan_direction
    pan_tracker,     \* PanTracker: [position, pid]
    follower,        \* TargetFollower: [pid]
    desired_state,   \* DesiredDriveState: [drive, steer, pan, tilt]
    detections,      \* PersonDetector._detections
    raw,             \* DesiredStateUpdater._raw_drive/_raw_steer/_raw_pan/_raw_tilt
    tick_pc,         \* position of the follow-coordinator thread inside _tick
    tick_local,      \* locals of _tick: [detections, pan_percent, steer]
    input_pc,        \* position of the input thread inside on_button / on_manual_input
    last_op,         \* the handler call that produced the current state:
                     \* [op, branch, index, pressed]
    state_lock,      \* DesiredDriveState._lock: "free" or the thread holding it
    snap,            \* a thread calling snapshot(): [pc, drive, steer, pan, tilt]
    setter,          \* a thread calling a setter: [pc, slot, percent]
    controller,      \* the actuator loop (CrawlerController / PiCarController
                     \* .serve_forever): [pc, kind, stop, last]
    hw,              \* the value each hardware setter received last, NoValue before
    hw_calls,        \* the hardware setter calls of the latest poll, in call order
    server,          \* RobotSocketServer: [stop_event, socket, client]
    net,             \* the operating system's side of the server's sockets:
                     \* [listener, pending, conn, peer, wire]
    serve,           \* the thread in serve_forever: [pc, client, buffer]
    stopper,         \* the thread in stop(): [pc, client, sock]
    session,         \* the current client session as seen from outside:
                     \* [id, sent, received, events]
    owner,           \* an object owning a background loop and the thread calling
                     \* its start() / stop(): [kind, pc, stop_event, thread]
    loops,           \* the loop threads started so far: sequence of [pc, told]
    client,          \* RobotSocketClient and its latest send_* call:
                     \* [socket, call, raised, payload]
    receiver,        \* the thread in RobotSocketClient._receive_loop and the
                     \* stream it reads: [pc, feed, received, buf, delivered]
    probe,           \* the latest call of a pure function: [fn, input, output]
    unit,            \* a PIDController or a PanTracker on its own, as the unit
                     \* tests build them, and the latest call on it:
                     \* [kind, gains, max_step, pid, position, op, arg, out]
    axis_threads     \* the threads inside DesiredStateUpdater.on_axis, each with
                     \* its position and its copies: [pc, drive, steer, pan, tilt]

vars == <<active, scanning, scan_position, scan_direction, pan_tracker, follower,
          desired_state, detections, raw, tick_pc, tick_local, input_pc, last_op,
          state_lock, snap, setter, controller, hw, hw_calls,
          server, net, serve, stopper, session, owner, loops,
          client, receiver, probe, unit, axis_threads>>

-----------------------------------------------------------------------------
(* Bounds of the model *)

\* largest elapsed time between two updates of one PID
MaxElapsed == 1

\* number of frames one client sends
MaxFrames == 2

\* number of clients that connect to the server
MaxClients == 2

-----------------------------------------------------------------------------
(* Program constants and the configuration of the modelled instance *)

BUTTON_A == 2

\* shared_lib.networking.robot_server
TYPE_BUTTON == 0
TYPE_AXIS == 1
TYPE_HAT == 2
AXIS_SCALE == 1000
\* FRAME_STRUCT.size of struct.Struct(">BBh")
FRAME_SIZE == 4

DRIVE_AXIS == 4
STEER_AXIS == 3
PAN_AXIS == 0
TILT_AXIS == 1

\* PIDController(kp=50.0) of the camera stage, with a small integral limit (0.2)
PanPidConfig == [kp |-> 50, ki |-> 0, kd |-> 0, integral_limit |-> 20]
\* PIDController(kp=50.0) of the steering stage, with a small integral limit (0.2)
SteerPidConfig == [kp |-> 50, ki |-> 0, kd |-> 0, integral_limit |-> 20]
\* PanTracker(pid, max_step=20.0)
PanTrackerConfig == [max_step |-> 20]
\* TargetFollower(pid, drive_speed=30.0)
FollowerConfig == [drive_speed |-> 30]
\* PersonFollowCoordinator(base_drive_speed=100.0, drive_exponent=1.0,
\*                         update_hz=1.0, scan_speed=40.0)
CoordinatorConfig == [base_drive_speed |-> 100, drive_exponent |-> 1,
                      update_hz |-> 1, scan_speed |-> 40]

-----------------------------------------------------------------------------
(* Pure helpers *)

Abs(v) == IF v < 0 THEN -v ELSE v

Max(a, b) == IF a >= b THEN a ELSE b

Min(a, b) == IF a <= b THEN a ELSE b

RECURSIVE Pow(_, _)
Pow(b, e) == IF e = 0 THEN 1 ELSE b * Pow(b, e - 1)

\* a clamp that cuts only at the upper limit
clamp_percent_upper(value) ==
    IF value > 100 THEN 100
    ELSE value

\* shared_lib.drive_state.state._clamp_percent
clamp_percent(value) ==
    IF value < -100 THEN -100
    ELSE IF value > 100 THEN 100
    ELSE value

\* shared_lib.drive_state.state.scale_axis, on thousandths: value * 100.0 clamped
scale_axis(value) == clamp_percent((value * 100) \div 1000)

-----------------------------------------------------------------------------
(* PIDController *)

PidFresh == [integral |-> 0, prev_error |-> 0, prev_time |-> "None"]

\* PIDController.reset that forgets to clear the integral
PidResetKeepsIntegral(pid) ==
    [integral |-> pid.integral, prev_error |-> 0, prev_time |-> "None"]

\* PIDController.reset
PidReset(pid) == [integral |-> 0, prev_error |-> 0, prev_time |-> "None"]

\* PIDController.update that limits each increment of the integral instead of
\* the accumulated value
PidUpdateClampsIncrement(cfg, pid, error, elapsed) ==
    LET dt == IF pid.prev_time = "None" THEN 0 ELSE elapsed
        p == cfg.kp * error
        integral == pid.integral + Max(-cfg.integral_limit,
                                       Min(cfg.integral_limit, error * dt))
        i == cfg.ki * integral
        d == cfg.kd * (IF dt > 0 THEN (error - pid.prev_error) \div dt ELSE 0)
    IN  [pid |-> [integral |-> integral, prev_error |-> error, prev_time |-> "stamped"],
         out |-> (p + i + d) \div 100,
         sum |-> p + i + d]

\* PIDController.update: the new controller state and the returned output.
\* elapsed is now - _prev_time when a previous call exists.  error, p, i and d
\* are in hundredths, the output in whole percent (exact on the model's grid);
\* sum is the same output in hundredths.
PidUpdate(cfg, pid, error, elapsed) ==
    LET dt == IF pid.prev_time = "None" THEN 0 ELSE elapsed
        p == cfg.kp * error
        integral == Max(-cfg.integral_limit,
                        Min(cfg.integral_limit, pid.integral + error * dt))
        i == cfg.ki * integral
        d == cfg.kd * (IF dt > 0 THEN (error - pid.prev_error) \div dt ELSE 0)
    IN  [pid |-> [integral |-> integral, prev_error |-> error, prev_time |-> "stamped"],
         out |-> (p + i + d) \div 100,
         sum |-> p + i + d]

-----------------------------------------------------------------------------
(* PanTracker and TargetFollower *)

\* PanTracker.update: the tracker after the call (its position is the return value)
PanTrackerUpdate(tracker, deviation, elapsed) ==
    LET r == PidUpdate(PanPidConfig, tracker.pid, deviation, elapsed)
        correction == Max(-PanTrackerConfig.max_step,
                          Min(PanTrackerConfig.max_step, r.out))
    IN  [position |-> Max(-100, Min(100, tracker.position + correction)),
         pid |-> r.pid]

\* PanTracker.reset that ignores its position argument
PanTrackerResetToCentre(tracker, position) ==
    [position |-> 0, pid |-> PidReset(tracker.pid)]

\* PanTracker.reset(position)
PanTrackerReset(tracker, position) ==
    [position |-> position, pid |-> PidReset(tracker.pid)]

\* TargetFollower.update: the follower after the call and the returned (steer, drive)
FollowerUpdate(f, deviation, elapsed) ==
    LET r == PidUpdate(SteerPidConfig, f.pid, deviation, elapsed)
    IN  [follower |-> [pid |-> r.pid],
         steer |-> Max(-100, Min(100, r.out)),
         drive |-> FollowerConfig.drive_speed]

\* TargetFollower.reset
FollowerReset(f) == [pid |-> PidReset(f.pid)]

-----------------------------------------------------------------------------
(* DesiredDriveState setters *)

set_drive_percent(ds, percent) == [ds EXCEPT !.drive = clamp_percent(percent)]

set_steer_percent(ds, percent) == [ds EXCEPT !.steer = clamp_percent(percent)]

set_pan_percent_unclamped(ds, percent) == [ds EXCEPT !.pan = percent]

set_pan_percent(ds, percent) == [ds EXCEPT !.pan = clamp_percent(percent)]

set_tilt_percent(ds, percent) == [ds EXCEPT !.tilt = clamp_percent(percent)]

-----------------------------------------------------------------------------
(* PersonDetector: the detections it can publish *)

\* Detection(x, w, h) as percent of the frame (y, score and class_name play no
\* part in the coordinator): far left, right, and centred and larger.
\* DetLeft and DetRight have the same area.
DetLeft == [x |-> 0, w |-> 20, h |-> 50]

DetRight == [x |-> 70, w |-> 20, h |-> 50]

DetCentre == [x |-> 40, w |-> 20, h |-> 60]

\* the lists the detector publishes in the model: none, one detection, two of
\* equal area in both orders, and the largest in second place
DetectionLists ==
    {<<>>, <<DetLeft>>, <<DetRight>>, <<DetCentre>>,
     <<DetLeft, DetRight>>, <<DetRight, DetLeft>>, <<DetLeft, DetCentre>>}

Elapsed == 0..MaxElapsed

-----------------------------------------------------------------------------
(* PersonFollowCoordinator: the pieces of _tick, on_button, on_manual_input *)

\* on_button that forgets the `not pressed` half of its early return
IsToggleOnAnyEdge(index, pressed) == index = BUTTON_A

\* on_button's early return: `if index != BUTTON_A or not pressed: return`
IsToggle(index, pressed) == index = BUTTON_A /\ pressed

\* _advance_scan that tests `> 100.0` / `< -100.0` instead of `>=` / `<=`
AdvanceScanStrict(position, direction) ==
    LET step == (CoordinatorConfig.scan_speed \div CoordinatorConfig.update_hz) * direction
        moved == position + step
    IN  IF moved > 100 THEN [position |-> 100, direction |-> -1]
        ELSE IF moved < -100 THEN [position |-> -100, direction |-> 1]
        ELSE [position |-> moved, direction |-> direction]

\* _advance_scan that clamps at a limit without reversing the direction
AdvanceScanNoReverse(position, direction) ==
    LET step == (CoordinatorConfig.scan_speed \div CoordinatorConfig.update_hz) * direction
        moved == position + step
    IN  [position |-> Max(-100, Min(100, moved)), direction |-> direction]

\* _advance_scan: the scan position and direction after one step
AdvanceScan(position, direction) ==
    LET step == (CoordinatorConfig.scan_speed \div CoordinatorConfig.update_hz) * direction
        moved == position + step
    IN  IF moved >= 100 THEN [position |-> 100, direction |-> -1]
        ELSE IF moved <= -100 THEN [position |-> -100, direction |-> 1]
        ELSE [position |-> moved, direction |-> direction]

\* _reset_scan that forgets the direction (it leaves a leftward sweep leftward)
ResetScanLeftward == [scanning |-> FALSE, position |-> 0, direction |-> -1]

\* _reset_scan: the scan fields after the call
ResetScan == [scanning |-> FALSE, position |-> 0, direction |-> 1]

\* a tick that never seeds the scan position from the tracker
ScanSeedNever(is_scanning, position, tracker) == position

\* `if not self._scanning: self._scan_position = self.pan_tracker._position`
ScanSeed(is_scanning, position, tracker) ==
    IF ~is_scanning THEN tracker.position ELSE position

Area(d) == d.w * d.h

\* max(detections, key=lambda d: d.w * d.h): Python's max keeps the running
\* best and replaces it only by a strictly greater key
RECURSIVE MaxFrom(_, _, _)
MaxFrom(dets, i, best) ==
    IF i > Len(dets) THEN best
    ELSE MaxFrom(dets, i + 1, IF Area(dets[i]) > Area(best) THEN dets[i] ELSE best)

\* max() that keeps the last of several maximal detections
RECURSIVE MaxFromLast(_, _, _)
MaxFromLast(dets, i, best) ==
    IF i > Len(dets) THEN best
    ELSE MaxFromLast(dets, i + 1, IF Area(dets[i]) >= Area(best) THEN dets[i] ELSE best)

LargestDetectionLast(dets) == MaxFromLast(dets, 2, dets[1])

LargestDetection(dets) == MaxFrom(dets, 2, dets[1])

\* center_x = best.x + best.w / 2.0; deviation = (0.5 - center_x) * 2.0, in hundredths
Deviation(best) ==
    LET twice_center_x == 2 * best.x + best.w
    IN  100 - twice_center_x

\* a drive profile that forgets the absolute value of the pan
DriveForSigned(pan_percent) ==
    (CoordinatorConfig.base_drive_speed
        * Pow(100 - pan_percent, CoordinatorConfig.drive_exponent))
    \div Pow(100, CoordinatorConfig.drive_exponent)

\* base_drive_speed * (1.0 - abs(pan_percent) / 100.0) ** drive_exponent
DriveFor(pan_percent) ==
    (CoordinatorConfig.base_drive_speed
        * Pow(100 - Abs(pan_percent), CoordinatorConfig.drive_exponent))
    \div Pow(100, CoordinatorConfig.drive_exponent)

\* the deviation handed to the follower: -pan_percent / 100.0, in hundredths
SteerError(pan_percent) == -pan_percent

-----------------------------------------------------------------------------
(* Initial state: the objects as constructed *)

\* Python's None in a slot that otherwise holds a number, and a number in it
NoValue == [set |-> FALSE, value |-> 0]

SomeValue(v) == [set |-> TRUE, value |-> v]

\* the record kept in last_op for a call of handler op that took branch
Op(op, branch) == [op |-> op, branch |-> branch, index |-> 0, pressed |-> FALSE]

ButtonOp(branch, index, pressed) ==
    [op |-> "on_button", branch |-> branch, index |-> index, pressed |-> pressed]

\* the threads that deliver axis events to one DesiredStateUpdater (pi_car
\* main): the socket server's and the camera server's
AxisThreads == {"server", "camera"}

\* a thread outside on_axis
AxisThreadIdle == [pc |-> "idle", drive |-> 0, steer |-> 0, pan |-> 0, tilt |-> 0]

\* no PIDController or PanTracker built yet
NoUnit ==
    [kind |-> "none",
     gains |-> [kp |-> 0, ki |-> 0, kd |-> 0, integral_limit |-> 0],
     max_step |-> 0, pid |-> PidFresh, position |-> 0,
     op |-> "none", arg |-> 0, out |-> 0]

\* the record kept in client.call before any call
NoCall == [op |-> "none", index |-> 0, value |-> 0, pressed |-> FALSE, hat |-> <<0, 0>>]

\* the record kept in client.call; the arguments an operation does not take
\* are left neutral
Call(op, index, value, pressed, hat) ==
    [NoCall EXCEPT !.op = op, !.index = index, !.value = value,
                   !.pressed = pressed, !.hat = hat]

Init ==
    /\ active = FALSE
    /\ scanning = FALSE
    /\ scan_position = 0
    /\ scan_direction = 1
    /\ pan_tracker = [position |-> 0, pid |-> PidFresh]
    /\ follower = [pid |-> PidFresh]
    /\ desired_state = [drive |-> 0, steer |-> 0, pan |-> 0, tilt |-> 0]
    /\ detections = <<>>
    /\ raw = [drive |-> 0, steer |-> 0, pan |-> 0, tilt |-> 0]
    /\ tick_pc = "idle"
    /\ tick_local = [detections |-> <<>>, pan_percent |-> 0, steer |-> 0]
    /\ input_pc = "idle"
    /\ last_op = Op("init", "")
    /\ state_lock = "free"
    /\ snap = [pc |-> "idle", drive |-> 0, steer |-> 0, pan |-> 0, tilt |-> 0]
    /\ setter = [pc |-> "idle", slot |-> "drive", percent |-> 0]
    /\ controller = [pc |-> "idle", kind |-> "crawler", stop |-> FALSE,
                     last |-> [drive |-> NoValue, steer |-> NoValue,
                               pan |-> NoValue, tilt |-> NoValue]]
    /\ hw = [drive |-> NoValue, steer |-> NoValue, pan |-> NoValue, tilt |-> NoValue]
    /\ hw_calls = <<>>
    /\ server = [stop_event |-> FALSE, socket |-> "None", client |-> 0]
    /\ net = [listener |-> "none", pending |-> FALSE, conn |-> "none",
              peer |-> "none", wire |-> <<>>]
    /\ serve = [pc |-> "idle", client |-> 0, buffer |-> <<>>]
    /\ stopper = [pc |-> "idle", client |-> 0, sock |-> "None"]
    /\ session = [id |-> 0, sent |-> 0, received |-> <<>>, events |-> <<>>]
    /\ owner = [kind |-> "coordinator", pc |-> "idle", stop_event |-> FALSE,
                thread |-> 0]
    /\ loops = <<>>
    /\ client = [socket |-> "None", call |-> NoCall, raised |-> FALSE,
                 payload |-> <<>>]
    /\ receiver = [pc |-> "idle", feed |-> [garbage |-> <<>>, frames |-> <<>>],
                   received |-> 0, buf |-> <<>>, delivered |-> <<>>]
    /\ probe = [fn |-> "none", input |-> <<>>, output |-> <<>>]
    /\ unit = NoUnit
    /\ axis_threads = [t \in AxisThreads |-> AxisThreadIdle]

threads == <<tick_pc, tick_local, input_pc>>

coordinator == <<active, scanning, scan_position, scan_direction>>

\* everything of the follow pipeline except the desired state it writes
follow_state == <<coordinator, pan_tracker, follower, detections, raw, threads>>

\* the socket server, its two threads and its client
network == <<server, net, serve, stopper, session>>

\* the actuator loop and the hardware behind it
actuator == <<controller, hw, hw_calls>>

\* an object with a background loop thread (start / stop / loop)
lifecycle == <<owner, loops>>

\* the operator's side of the link: RobotSocketClient and its receive thread
remote == <<client, receiver>>

\* the threads around the pipeline, which the pipeline's handlers leave alone
periphery ==
    <<state_lock, snap, setter, actuator, network, lifecycle, remote, probe, unit,
      axis_threads>>

-----------------------------------------------------------------------------
(* Handlers run to completion (one thread at a time, as in the unit tests) *)

\* PersonFollowCoordinator.on_button
OnButton(index, pressed) ==
    /\ tick_pc = "idle" /\ input_pc = "idle"
    /\ IF ~IsToggle(index, pressed)
       THEN /\ last_op' = ButtonOp("ignored", index, pressed)
            /\ UNCHANGED <<coordinator, pan_tracker, follower, desired_state>>
       ELSE IF ~active
       THEN /\ active' = TRUE
            /\ last_op' = ButtonOp("on", index, pressed)
            /\ UNCHANGED <<scanning, scan_position, scan_direction,
                           pan_tracker, follower, desired_state>>
       ELSE /\ active' = FALSE
            /\ scanning' = ResetScan.scanning
            /\ scan_position' = ResetScan.position
            /\ scan_direction' = ResetScan.direction
            /\ pan_tracker' = PanTrackerReset(pan_tracker, 0)
            /\ follower' = FollowerReset(follower)
            /\ desired_state' = set_pan_percent(
                                    set_steer_percent(
                                        set_drive_percent(desired_state, 0), 0), 0)
            /\ last_op' = ButtonOp("off", index, pressed)
    /\ UNCHANGED <<detections, raw, threads>>
    /\ UNCHANGED periphery

\* PersonFollowCoordinator.on_manual_input without the `if not self._active`
\* early return
OnManualInputUnguarded ==
    /\ tick_pc = "idle" /\ input_pc = "idle"
    /\ active' = FALSE
    /\ scanning' = ResetScan.scanning
    /\ scan_position' = ResetScan.position
    /\ scan_direction' = ResetScan.direction
    /\ pan_tracker' = PanTrackerReset(pan_tracker, 0)
    /\ follower' = FollowerReset(follower)
    /\ desired_state' = set_pan_percent(desired_state, 0)
    /\ last_op' = Op("on_manual_input", IF active THEN "off" ELSE "noop")
    /\ UNCHANGED <<detections, raw, threads>>
    /\ UNCHANGED periphery

\* PersonFollowCoordinator.on_manual_input
OnManualInput ==
    /\ tick_pc = "idle" /\ input_pc = "idle"
    /\ IF ~active
       THEN /\ last_op' = Op("on_manual_input", "noop")
            /\ UNCHANGED <<coordinator, pan_tracker, follower, desired_state>>
       ELSE /\ active' = FALSE
            /\ scanning' = ResetScan.scanning
            /\ scan_position' = ResetScan.position
            /\ scan_direction' = ResetScan.direction
            /\ pan_tracker' = PanTrackerReset(pan_tracker, 0)
            /\ follower' = FollowerReset(follower)
            /\ desired_state' = set_pan_percent(desired_state, 0)
            /\ last_op' = Op("on_manual_input", "off")
    /\ UNCHANGED <<detections, raw, threads>>
    /\ UNCHANGED periphery

\* PersonFollowCoordinator._tick, one call from the first line to its return
Tick(elapsed_pan, elapsed_steer) ==
    /\ tick_pc = "idle" /\ input_pc = "idle"
    /\ IF ~active
       THEN /\ last_op' = Op("tick", "inactive")
            /\ UNCHANGED <<coordinator, pan_tracker, follower, desired_state>>
       ELSE IF detections = <<>>
       THEN LET seeded == ScanSeed(scanning, scan_position, pan_tracker)
                adv == AdvanceScan(seeded, scan_direction)
            IN  /\ scanning' = TRUE
                /\ scan_position' = adv.position
                /\ scan_direction' = adv.direction
                /\ desired_state' = set_steer_percent(
                                        set_drive_percent(
                                            set_pan_percent(desired_state, adv.position),
                                            0), 0)
                /\ last_op' = Op("tick", IF scanning THEN "scan" ELSE "scan_first")
                /\ UNCHANGED <<active, pan_tracker, follower>>
       ELSE LET tracker0 == IF scanning
                            THEN PanTrackerReset(pan_tracker, scan_position)
                            ELSE pan_tracker
                follower0 == IF scanning THEN FollowerReset(follower) ELSE follower
                best == LargestDetection(detections)
                tracker1 == PanTrackerUpdate(tracker0, Deviation(best), elapsed_pan)
                pan_percent == tracker1.position
                fu == FollowerUpdate(follower0, SteerError(pan_percent), elapsed_steer)
            IN  /\ scanning' = IF scanning THEN ResetScan.scanning ELSE scanning
                /\ scan_position' = IF scanning THEN ResetScan.position ELSE scan_position
                /\ scan_direction' = IF scanning THEN ResetScan.direction ELSE scan_direction
                /\ pan_tracker' = tracker1
                /\ follower' = fu.follower
                /\ desired_state' = set_drive_percent(
                                        set_steer_percent(
                                            set_pan_percent(desired_state, pan_percent),
                                            fu.steer),
                                        DriveFor(pan_percent))
                /\ last_op' = Op("tick", IF scanning THEN "handoff" ELSE "track")
                /\ UNCHANGED active
    /\ UNCHANGED <<detections, raw, threads>>
    /\ UNCHANGED periphery

\* PersonDetector._read_detections publishing a new list
ReadDetections(matches) ==
    /\ detections' = matches
    /\ last_op' = Op("read_detections", "")
    /\ UNCHANGED <<coordinator, pan_tracker, follower, desired_state, raw, threads>>
    /\ UNCHANGED periphery

\* a direct DesiredDriveState.set_tilt_percent call
SetTilt(percent) ==
    /\ desired_state' = set_tilt_percent(desired_state, percent)
    /\ last_op' = Op("set_tilt_percent", "")
    /\ UNCHANGED <<coordinator, pan_tracker, follower, detections, raw, threads>>
    /\ UNCHANGED periphery

ButtonIndices == {BUTTON_A, 3}

TiltValues == {-150}

Next ==
    \/ \E index \in ButtonIndices, pressed \in BOOLEAN : OnButton(index, pressed)
    \/ OnManualInput
    \/ \E elapsed_pan \in Elapsed, elapsed_steer \in Elapsed : Tick(elapsed_pan, elapsed_steer)
    \/ \E matches \in DetectionLists : ReadDetections(matches)
    \/ \E percent \in TiltValues : SetTilt(percent)

Spec == Init /\ [][Next]_vars

-----------------------------------------------------------------------------
(* DesiredStateUpdater (shared_lib.drive_state.state) driving the same state *)

\* a deadzone that also filters the value 0.05 itself
DeadzoneInclusive(value) == IF Abs(value) <= 50 THEN 0 ELSE value

\* `if abs(value) < 0.05: value = 0.0`, on thousandths
Deadzone(value) == IF Abs(value) < 50 THEN 0 ELSE value

\* the locked part of on_axis with the drive axis stored without its sign flip
RawAfterUnsigned(r, index, value) ==
    IF index = DRIVE_AXIS THEN [r EXCEPT !.drive = value]
    ELSE IF index = STEER_AXIS THEN [r EXCEPT !.steer = value]
    ELSE IF index = PAN_AXIS THEN [r EXCEPT !.pan = value]
    ELSE IF index = TILT_AXIS THEN [r EXCEPT !.tilt = value]
    ELSE r

\* the raw axes after the locked part of on_axis; unrecognised indices leave them
RawAfter(r, index, value) ==
    IF index = DRIVE_AXIS THEN [r EXCEPT !.drive = -value]
    ELSE IF index = STEER_AXIS THEN [r EXCEPT !.steer = value]
    ELSE IF index = PAN_AXIS THEN [r EXCEPT !.pan = value]
    ELSE IF index = TILT_AXIS THEN [r EXCEPT !.tilt = value]
    ELSE r

RecognisedAxis(index) == index \in {DRIVE_AXIS, STEER_AXIS, PAN_AXIS, TILT_AXIS}

\* DesiredStateUpdater.on_axis: deadzone, raw update, then the four setters.
\* The handler calls nothing else: it has no on_manual_input hook.
on_axis(index, value) ==
    /\ tick_pc = "idle" /\ input_pc = "idle"
    /\ LET filtered == Deadzone(value)
           r == RawAfter(raw, index, filtered)
       IN  IF ~RecognisedAxis(index)
           THEN /\ last_op' = [op |-> "on_axis", branch |-> "ignored",
                               index |-> index, pressed |-> FALSE]
                /\ UNCHANGED <<raw, desired_state>>
           ELSE /\ raw' = r
                /\ desired_state' =
                      set_tilt_percent(
                        set_pan_percent(
                          set_steer_percent(
                            set_drive_percent(desired_state, scale_axis(r.drive)),
                            scale_axis(r.steer)),
                          scale_axis(-r.pan)),
                        scale_axis(-r.tilt))
                /\ last_op' = [op |-> "on_axis", branch |-> "written",
                               index |-> index, pressed |-> FALSE]
    /\ UNCHANGED <<coordinator, pan_tracker, follower, detections, threads>>

\* a call of on_axis by the socket server's thread
OnAxis(index, value) ==
    /\ on_axis(index, value)
    /\ UNCHANGED periphery

AxisIndices == {DRIVE_AXIS, STEER_AXIS, PAN_AXIS, TILT_AXIS, 7}

AxisValues == {30, 500}

\* the crawler's wiring (main): the socket server delivers axis events to the
\* updater and button events to the coordinator, whose loop ticks
NextManual ==
    \/ \E index \in AxisIndices, value \in AxisValues : OnAxis(index, value)
    \/ \E pressed \in BOOLEAN : OnButton(BUTTON_A, pressed)
    \/ \E elapsed \in Elapsed : Tick(elapsed, elapsed)
    \/ \E matches \in {<<>>, <<DetLeft>>} : ReadDetections(matches)

SpecManual == Init /\ [][NextManual]_vars

-----------------------------------------------------------------------------
(* The tick thread against the input thread, statement by statement.        *)
(* Each step is one statement of _tick, on_button or on_manual_input; a     *)
(* `with self._lock` block and a call into another object run as one step.  *)

NoLocals == [detections |-> <<>>, pan_percent |-> 0, steer |-> 0]

\* _tick, `with self._lock: if not self._active: return`
TickCheckActive ==
    /\ tick_pc = "idle"
    /\ IF ~active
       THEN /\ last_op' = Op("tick", "inactive")
            /\ UNCHANGED tick_pc
       ELSE /\ tick_pc' = "read"
            /\ UNCHANGED last_op
    /\ UNCHANGED <<coordinator, pan_tracker, follower, desired_state, detections,
                   raw, tick_local, input_pc>>
    /\ UNCHANGED periphery

\* `detections = self.detector.detections` and the test `if not detections`
TickRead ==
    /\ tick_pc = "read"
    /\ tick_local' = [tick_local EXCEPT !.detections = detections]
    /\ tick_pc' = IF detections = <<>> THEN "scan_test" ELSE "track_test"
    /\ UNCHANGED <<coordinator, pan_tracker, follower, desired_state, detections,
                   raw, input_pc, last_op>>
    /\ UNCHANGED periphery

\* `if not self._scanning:`
TickScanTest ==
    /\ tick_pc = "scan_test"
    /\ tick_pc' = IF ~scanning THEN "scan_seed" ELSE "scan_advance"
    /\ UNCHANGED <<coordinator, pan_tracker, follower, desired_state, detections,
                   raw, tick_local, input_pc, last_op>>
    /\ UNCHANGED periphery

\* `self._scan_position = self.pan_tracker._position`
TickScanSeed ==
    /\ tick_pc = "scan_seed"
    /\ scan_position' = ScanSeed(FALSE, scan_position, pan_tracker)
    /\ tick_pc' = "scan_flag"
    /\ UNCHANGED <<active, scanning, scan_direction, pan_tracker, follower,
                   desired_state, detections, raw, tick_local, input_pc, last_op>>
    /\ UNCHANGED periphery

\* `self._scanning = True`
TickScanFlag ==
    /\ tick_pc = "scan_flag"
    /\ scanning' = TRUE
    /\ tick_pc' = "scan_advance"
    /\ UNCHANGED <<active, scan_position, scan_direction, pan_tracker, follower,
                   desired_state, detections, raw, tick_local, input_pc, last_op>>
    /\ UNCHANGED periphery

\* `self._advance_scan()`
TickScanAdvance ==
    /\ tick_pc = "scan_advance"
    /\ LET adv == AdvanceScan(scan_position, scan_direction)
       IN  /\ scan_position' = adv.position
           /\ scan_direction' = adv.direction
    /\ tick_pc' = "scan_pan"
    /\ UNCHANGED <<active, scanning, pan_tracker, follower, desired_state,
                   detections, raw, tick_local, input_pc, last_op>>
    /\ UNCHANGED periphery

\* `self.desired_state.set_pan_percent(self._scan_position)`
TickScanPan ==
    /\ tick_pc = "scan_pan"
    /\ desired_state' = set_pan_percent(desired_state, scan_position)
    /\ tick_pc' = "scan_drive"
    /\ UNCHANGED <<coordinator, pan_tracker, follower, detections, raw,
                   tick_local, input_pc, last_op>>
    /\ UNCHANGED periphery

\* `self.desired_state.set_drive_percent(0.0)`
TickScanDrive ==
    /\ tick_pc = "scan_drive"
    /\ desired_state' = set_drive_percent(desired_state, 0)
    /\ tick_pc' = "scan_steer"
    /\ UNCHANGED <<coordinator, pan_tracker, follower, detections, raw,
                   tick_local, input_pc, last_op>>
    /\ UNCHANGED periphery

\* `self.desired_state.set_steer_percent(0.0); return`
TickScanSteer ==
    /\ tick_pc = "scan_steer"
    /\ desired_state' = set_steer_percent(desired_state, 0)
    /\ tick_pc' = "idle"
    /\ tick_local' = NoLocals
    /\ last_op' = Op("tick", "scan")
    /\ UNCHANGED <<coordinator, pan_tracker, follower, detections, raw, input_pc>>
    /\ UNCHANGED periphery

\* `if self._scanning:`
TickTrackTest ==
    /\ tick_pc = "track_test"
    /\ tick_pc' = IF scanning THEN "handoff_tracker" ELSE "track_update"
    /\ UNCHANGED <<coordinator, pan_tracker, follower, desired_state, detections,
                   raw, tick_local, input_pc, last_op>>
    /\ UNCHANGED periphery

\* `self.pan_tracker.reset(position=self._scan_position)`
TickHandoffTracker ==
    /\ tick_pc = "handoff_tracker"
    /\ pan_tracker' = PanTrackerReset(pan_tracker, scan_position)
    /\ tick_pc' = "handoff_follower"
    /\ UNCHANGED <<coordinator, follower, desired_state, detections, raw,
                   tick_local, input_pc, last_op>>
    /\ UNCHANGED periphery

\* `self.follower.reset()`
TickHandoffFollower ==
    /\ tick_pc = "handoff_follower"
    /\ follower' = FollowerReset(follower)
    /\ tick_pc' = "handoff_scan"
    /\ UNCHANGED <<coordinator, pan_tracker, desired_state, detections, raw,
                   tick_local, input_pc, last_op>>
    /\ UNCHANGED periphery

\* `self._reset_scan()`
TickHandoffScan ==
    /\ tick_pc = "handoff_scan"
    /\ scanning' = ResetScan.scanning
    /\ scan_position' = ResetScan.position
    /\ scan_direction' = ResetScan.direction
    /\ tick_pc' = "track_update"
    /\ UNCHANGED <<active, pan_tracker, follower, desired_state, detections, raw,
                   tick_local, input_pc, last_op>>
    /\ UNCHANGED periphery

\* `best = max(...)` to `pan_percent = self.pan_tracker.update(deviation)`
TickTrackUpdate(elapsed) ==
    /\ tick_pc = "track_update"
    /\ LET best == LargestDetection(tick_local.detections)
           tracker1 == PanTrackerUpdate(pan_tracker, Deviation(best), elapsed)
       IN  /\ pan_tracker' = tracker1
           /\ tick_local' = [tick_local EXCEPT !.pan_percent = tracker1.position]
    /\ tick_pc' = "track_pan"
    /\ UNCHANGED <<coordinator, follower, desired_state, detections, raw,
                   input_pc, last_op>>
    /\ UNCHANGED periphery

\* `self.desired_state.set_pan_percent(pan_percent)`
TickTrackPan ==
    /\ tick_pc = "track_pan"
    /\ desired_state' = set_pan_percent(desired_state, tick_local.pan_percent)
    /\ tick_pc' = "track_follow"
    /\ UNCHANGED <<coordinator, pan_tracker, follower, detections, raw,
                   tick_local, input_pc, last_op>>
    /\ UNCHANGED periphery

\* `steer, _ = self.follower.update(-pan_percent / 100.0)`
TickTrackFollow(elapsed) ==
    /\ tick_pc = "track_follow"
    /\ LET fu == FollowerUpdate(follower, SteerError(tick_local.pan_percent), elapsed)
       IN  /\ follower' = fu.follower
           /\ tick_local' = [tick_local EXCEPT !.steer = fu.steer]
    /\ tick_pc' = "track_steer"
    /\ UNCHANGED <<coordinator, pan_tracker, desired_state, detections, raw,
                   input_pc, last_op>>
    /\ UNCHANGED periphery

\* `self.desired_state.set_steer_percent(steer)`
TickTrackSteer ==
    /\ tick_pc = "track_steer"
    /\ desired_state' = set_steer_percent(desired_state, tick_local.steer)
    /\ tick_pc' = "track_drive"
    /\ UNCHANGED <<coordinator, pan_tracker, follower, detections, raw,
                   tick_local, input_pc, last_op>>
    /\ UNCHANGED periphery

\* `drive = ...; self.desired_state.set_drive_percent(drive)` and the return
TickTrackDrive ==
    /\ tick_pc = "track_drive"
    /\ desired_state' = set_drive_percent(desired_state, DriveFor(tick_local.pan_percent))
    /\ tick_pc' = "idle"
    /\ tick_local' = NoLocals
    /\ last_op' = Op("tick", "track")
    /\ UNCHANGED <<coordinator, pan_tracker, follower, detections, raw, input_pc>>
    /\ UNCHANGED periphery

\* on_button up to the end of its `with self._lock` block
ButtonFlip(index, pressed) ==
    /\ input_pc = "idle"
    /\ IF ~IsToggle(index, pressed)
       THEN /\ last_op' = ButtonOp("ignored", index, pressed)
            /\ UNCHANGED <<active, input_pc>>
       ELSE /\ active' = ~active
            /\ IF ~active
               THEN /\ last_op' = ButtonOp("on", index, pressed)
                    /\ UNCHANGED input_pc
               ELSE /\ input_pc' = "off_scan"
                    /\ UNCHANGED last_op
    /\ UNCHANGED <<scanning, scan_position, scan_direction, pan_tracker, follower,
                   desired_state, detections, raw, tick_pc, tick_local>>
    /\ UNCHANGED periphery

\* on_manual_input up to the end of its `with self._lock` block
ManualFlip ==
    /\ input_pc = "idle"
    /\ IF ~active
       THEN /\ last_op' = Op("on_manual_input", "noop")
            /\ UNCHANGED <<active, input_pc>>
       ELSE /\ active' = FALSE
            /\ input_pc' = "manual_scan"
            /\ UNCHANGED last_op
    /\ UNCHANGED <<scanning, scan_position, scan_direction, pan_tracker, follower,
                   desired_state, detections, raw, tick_pc, tick_local>>
    /\ UNCHANGED periphery

\* `self._reset_scan()` of either deactivation
InputResetScan ==
    /\ input_pc \in {"off_scan", "manual_scan"}
    /\ scanning' = ResetScan.scanning
    /\ scan_position' = ResetScan.position
    /\ scan_direction' = ResetScan.direction
    /\ input_pc' = IF input_pc = "off_scan" THEN "off_tracker" ELSE "manual_tracker"
    /\ UNCHANGED <<active, pan_tracker, follower, desired_state, detections, raw,
                   tick_pc, tick_local, last_op>>
    /\ UNCHANGED periphery

\* `self.pan_tracker.reset()`
InputResetTracker ==
    /\ input_pc \in {"off_tracker", "manual_tracker"}
    /\ pan_tracker' = PanTrackerReset(pan_tracker, 0)
    /\ input_pc' = IF input_pc = "off_tracker" THEN "off_follower" ELSE "manual_follower"
    /\ UNCHANGED <<coordinator, follower, desired_state, detections, raw,
                   tick_pc, tick_local, last_op>>
    /\ UNCHANGED periphery

\* `self.follower.reset()`
InputResetFollower ==
    /\ input_pc \in {"off_follower", "manual_follower"}
    /\ follower' = FollowerReset(follower)
    /\ input_pc' = IF input_pc = "off_follower" THEN "off_drive" ELSE "manual_pan"
    /\ UNCHANGED <<coordinator, pan_tracker, desired_state, detections, raw,
                   tick_pc, tick_local, last_op>>
    /\ UNCHANGED periphery

\* on_button: `self.desired_state.set_drive_percent(0.0)`
ButtonZeroDrive ==
    /\ input_pc = "off_drive"
    /\ desired_state' = set_drive_percent(desired_state, 0)
    /\ input_pc' = "off_steer"
    /\ UNCHANGED <<coordinator, pan_tracker, follower, detections, raw,
                   tick_pc, tick_local, last_op>>
    /\ UNCHANGED periphery

\* on_button: `self.desired_state.set_steer_percent(0.0)`
ButtonZeroSteer ==
    /\ input_pc = "off_steer"
    /\ desired_state' = set_steer_percent(desired_state, 0)
    /\ input_pc' = "off_pan"
    /\ UNCHANGED <<coordinator, pan_tracker, follower, detections, raw,
                   tick_pc, tick_local, last_op>>
    /\ UNCHANGED periphery

\* `self.desired_state.set_pan_percent(0.0)` and the return of either deactivation
InputZeroPan ==
    /\ input_pc \in {"off_pan", "manual_pan"}
    /\ desired_state' = set_pan_percent(desired_state, 0)
    /\ last_op' = IF input_pc = "off_pan"
                  THEN ButtonOp("off", BUTTON_A, TRUE)
                  ELSE Op("on_manual_input", "off")
    /\ input_pc' = "idle"
    /\ UNCHANGED <<coordinator, pan_tracker, follower, detections, raw,
                   tick_pc, tick_local>>
    /\ UNCHANGED periphery

TickStep ==
    \/ TickCheckActive
    \/ TickRead
    \/ TickScanTest
    \/ TickScanSeed
    \/ TickScanFlag
    \/ TickScanAdvance
    \/ TickScanPan
    \/ TickScanDrive
    \/ TickScanSteer
    \/ TickTrackTest
    \/ TickHandoffTracker
    \/ TickHandoffFollower
    \/ TickHandoffScan
    \/ \E elapsed \in Elapsed : TickTrackUpdate(elapsed)
    \/ TickTrackPan
    \/ \E elapsed \in Elapsed : TickTrackFollow(elapsed)
    \/ TickTrackSteer
    \/ TickTrackDrive

InputStep ==
    \/ \E index \in ButtonIndices, pressed \in BOOLEAN : ButtonFlip(index, pressed)
    \/ ManualFlip
    \/ InputResetScan
    \/ InputResetTracker
    \/ InputResetFollower
    \/ ButtonZeroDrive
    \/ ButtonZeroSteer
    \/ InputZeroPan

NextRace ==
    \/ TickStep
    \/ InputStep
    \/ \E matches \in {<<>>, <<DetLeft>>} : ReadDetections(matches)

SpecRace == Init /\ [][NextRace]_vars

-----------------------------------------------------------------------------
(* Properties of the coordinator, one handler at a time (Spec) *)

PidIsReset(pid) == pid = [integral |-> 0, prev_error |-> 0, prev_time |-> "None"]

ScanIsReset == scanning = FALSE /\ scan_position = 0 /\ scan_direction = 1

IsTogglePress(op) == op.op = "on_button" /\ op.index = 2 /\ op.pressed

\* C1: the coordinator starts inactive, and on_button(index, pressed) flips
\* `active` exactly when index is the toggle button and pressed is true; any
\* other index and any release leave it unchanged (so two presses in a row
\* restore it).
C1_ToggleExactlyOnPress ==
    /\ active = FALSE
    /\ [][last_op'.op = "on_button" =>
            active' = (IF last_op'.index = 2 /\ last_op'.pressed THEN ~active ELSE active)]_vars

\* a second press of the toggle button has just returned the coordinator to inactive
C1_Witness == IsTogglePress(last_op) /\ ~active

\* C3: a toggle press on an active coordinator leaves drive = steer = pan = 0
\* with tilt unchanged, the scan state (false, 0, +1), the tracker position 0
\* and both PID states reset, whatever preceded it.
C3_ToggleOffResets ==
    [][(IsTogglePress(last_op') /\ active) =>
          /\ ~active'
          /\ desired_state' = [drive |-> 0, steer |-> 0, pan |-> 0,
                               tilt |-> desired_state.tilt]
          /\ ScanIsReset'
          /\ pan_tracker'.position = 0
          /\ PidIsReset(pan_tracker'.pid)
          /\ PidIsReset(follower'.pid)]_vars

\* a toggle-off has just run on a state whose tilt was set before
C3_Witness == IsTogglePress(last_op) /\ ~active /\ desired_state.tilt # 0

\* C4: on_manual_input() on an active coordinator deactivates it and resets
\* like a toggle-off: drive = steer = pan = 0, both PID states reset, scan
\* state (false, 0, +1).
C4_ManualOverrideResetsLikeToggle ==
    [][(last_op'.op = "on_manual_input" /\ active) =>
          /\ ~active'
          /\ desired_state'.drive = 0
          /\ desired_state'.steer = 0
          /\ desired_state'.pan = 0
          /\ ScanIsReset'
          /\ PidIsReset(pan_tracker'.pid)
          /\ PidIsReset(follower'.pid)]_vars

\* C7: a tick of an active coordinator with no detections sets scanning,
\* writes drive = 0 and steer = 0 whatever they were, leaves tilt, and writes
\* to pan the scan position advanced by scan_speed/update_hz in the scan
\* direction (cut at +/-100) - from the tracker's held position on the first
\* such tick, from the previous scan position afterwards; from a centred
\* tracker the pan becomes nonzero.
C7_ScanTick ==
    [][(last_op'.op = "tick" /\ active /\ detections = <<>>) =>
          LET start == IF scanning THEN scan_position ELSE pan_tracker.position
              moved == start + (CoordinatorConfig.scan_speed \div CoordinatorConfig.update_hz) * scan_direction
              expected == IF moved > 100 THEN 100 ELSE IF moved < -100 THEN -100 ELSE moved
          IN  /\ scanning'
              /\ scan_position' = expected
              /\ desired_state' = [drive |-> 0, steer |-> 0, pan |-> expected,
                                   tilt |-> desired_state.tilt]
              /\ (~scanning /\ pan_tracker.position = 0 => desired_state'.pan # 0)
              /\ UNCHANGED <<pan_tracker, follower, active>>]_vars

\* the first scanning tick after tracking: the tracker is off centre and has
\* been updated, and the pan written is one step beyond its position
C7_Witness ==
    /\ last_op = [op |-> "tick", branch |-> "scan_first", index |-> 0, pressed |-> FALSE]
    /\ pan_tracker.pid.prev_time = "stamped"
    /\ pan_tracker.position = 20
    /\ desired_state = [drive |-> 0, steer |-> 0, pan |-> 60, tilt |-> -100]

\* C8: scan_position stays within [-100, 100] and scan_direction is +1 or -1;
\* a scanning tick that would reach or pass +100 (-100) stores exactly +100
\* (-100) and flips the direction to -1 (+1), and the scanning tick after it
\* moves the position away from that limit.
C8_ScanBounds ==
    /\ [](scan_position \in -100..100 /\ scan_direction \in {-1, 1})
    /\ [][(last_op'.op = "tick" /\ active /\ detections = <<>>) =>
            LET start == IF scanning THEN scan_position ELSE pan_tracker.position
                moved == start + (CoordinatorConfig.scan_speed \div CoordinatorConfig.update_hz) * scan_direction
            IN  /\ (moved >= 100 => scan_position' = 100 /\ scan_direction' = -1)
                /\ (moved <= -100 => scan_position' = -100 /\ scan_direction' = 1)
                /\ (scanning /\ scan_position = 100 => scan_position' < 100)
                /\ (scanning /\ scan_position = -100 => scan_position' > -100)]_vars

\* the sweep has turned at +100 and come back one step
C8_Witness ==
    /\ last_op.op = "tick"
    /\ scanning
    /\ scan_direction = -1
    /\ scan_position = 60

\* C9: a tick of an active, scanning coordinator with detections present
\* resets the tracker to the scan position and the follower PID, clears the
\* scan state to (false, 0, +1) and tracks in the same tick: the pan it writes
\* is within max_step of the scan position (the pan of the scanning tick
\* before), and both PIDs have seen exactly one update since their reset.
C9_ScanToTrackHandoff ==
    /\ [](scanning => desired_state.pan = scan_position)
    /\ [][(last_op'.op = "tick" /\ active /\ scanning /\ detections # <<>>) =>
            /\ ScanIsReset'
            /\ desired_state'.pan = pan_tracker'.position
            /\ Abs(desired_state'.pan - desired_state.pan) <= PanTrackerConfig.max_step
            /\ Abs(pan_tracker'.position - scan_position) <= PanTrackerConfig.max_step
            /\ pan_tracker'.pid.integral = 0
            /\ pan_tracker'.pid.prev_time = "stamped"
            /\ follower'.pid.integral = 0
            /\ follower'.pid.prev_time = "stamped"
            /\ follower'.pid.prev_error = -pan_tracker'.position]_vars

\* a handoff far from the centre: tracking resumed at the scan position
C9_Witness ==
    /\ last_op = [op |-> "tick", branch |-> "handoff", index |-> 0, pressed |-> FALSE]
    /\ desired_state.pan = 80
    /\ ~scanning

\* the index of the first detection of maximal area
FirstLargest(dets) ==
    CHOOSE i \in 1..Len(dets) :
        /\ \A j \in 1..Len(dets) : dets[j].w * dets[j].h <= dets[i].w * dets[i].h
        /\ \A j \in 1..(i - 1) : dets[j].w * dets[j].h < dets[i].w * dets[i].h

\* C10: a tracking tick steers by the detection of greatest area w*h, the
\* earliest in the list among several of maximal area, and leaves the
\* detector's list as it was.
C10_LargestFirstDetection ==
    [][(last_op'.op = "tick" /\ active /\ detections # <<>>) =>
          LET best == detections[FirstLargest(detections)]
          IN  /\ pan_tracker'.pid.prev_error = 100 - (2 * best.x + best.w)
              /\ detections' = detections]_vars

\* a tracking tick on two detections of equal area, the second one on the
\* other side of the frame: the deviation used is the first one's
C10_Witness ==
    /\ last_op.op = "tick"
    /\ last_op.branch \in {"track", "handoff"}
    /\ Len(detections) = 2
    /\ detections[1].w * detections[1].h = detections[2].w * detections[2].h
    /\ detections[1].x = 70
    /\ pan_tracker.pid.prev_error = -60

\* C2: an axis event on a recognised axis delivered through
\* DesiredStateUpdater.on_axis while the coordinator is active forces the
\* coordinator inactive as part of handling that event.
C2_AxisEventPreemptsAutonomy ==
    [][(last_op'.op = "on_axis" /\ last_op'.index \in {4, 3, 0, 1} /\ active) =>
          ~active']_vars

\* C5: once every in-flight call has returned, scanning implies active, and
\* an inactive coordinator holds the default scan position.
C5_ActiveScanningConsistent ==
    (tick_pc = "idle" /\ input_pc = "idle") =>
        /\ (scanning => active)
        /\ (~active => scan_position = 0)

\* C6: while the coordinator is inactive and no deactivation is in progress,
\* no step of a tick writes the desired state or touches the tracker,
\* follower or scan state.
C6_InactiveTickWritesNothing ==
    [][(~active /\ ~active' /\ input_pc = "idle" /\ input_pc' = "idle"
          /\ tick_pc' # tick_pc) =>
          UNCHANGED <<desired_state, pan_tracker, follower,
                      scanning, scan_position, scan_direction>>]_vars

-----------------------------------------------------------------------------
(* Tracking ticks: the direction of the pan and the drive profile (Spec) *)

\* a tick that took the tracking branch (with or without a handoff from scanning)
IsTrackingTick(op) == op.op = "tick" /\ op.branch \in {"track", "handoff"}

\* C11: from a centred tracker, one tracking tick whose selected detection
\* lies right of the frame centre (x + w/2 > 0.5) leaves pan > 0, steer > 0
\* and 0 < drive < base_drive_speed; one whose selected detection lies left
\* of the centre leaves pan < 0.
C11_RightTargetPansRight ==
    [][(IsTrackingTick(last_op') /\ active /\ ~scanning /\ detections # <<>>
          /\ pan_tracker.position = 0) =>
          LET best == LargestDetection(detections)
              twice_center_x == 2 * best.x + best.w
          IN  /\ (twice_center_x > 100 =>
                    /\ desired_state'.pan > 0
                    /\ desired_state'.steer > 0
                    /\ desired_state'.drive > 0
                    /\ desired_state'.drive < CoordinatorConfig.base_drive_speed)
              /\ (twice_center_x < 100 => desired_state'.pan < 0)]_vars

\* C12: on every tracking tick the drive written equals
\* base_drive_speed * (1 - |pan|/100)^drive_exponent for the pan written by
\* the same tick; it lies in [0, base_drive_speed], equals base_drive_speed
\* exactly when that pan is 0, and is 0 when |pan| = 100.
C12_DriveProfile ==
    [][(IsTrackingTick(last_op') /\ active /\ detections # <<>>) =>
          LET pan == desired_state'.pan
              drive == desired_state'.drive
              base == CoordinatorConfig.base_drive_speed
              exponent == CoordinatorConfig.drive_exponent
          IN  /\ drive * Pow(100, exponent) = base * Pow(100 - Abs(pan), exponent)
              /\ drive >= 0 /\ drive <= base
              /\ (drive = base <=> pan = 0)
              /\ (Abs(pan) = 100 => drive = 0)]_vars

\* a tracking tick has just written the pan at its negative limit and with it
\* a drive of zero
C12_Witness ==
    /\ IsTrackingTick(last_op)
    /\ desired_state.pan = -100
    /\ desired_state.drive = 0

-----------------------------------------------------------------------------
(* DesiredDriveState on its own: direct calls of the four setters *)

\* DesiredDriveState.snapshot: (drive, steer, pan, tilt)
snapshot(ds) == <<ds.drive, ds.steer, ds.pan, ds.tilt>>

\* a direct DesiredDriveState.set_drive_percent call
SetDrive(percent) ==
    /\ desired_state' = set_drive_percent(desired_state, percent)
    /\ last_op' = Op("set_drive_percent", "")
    /\ UNCHANGED <<coordinator, pan_tracker, follower, detections, raw, threads>>
    /\ UNCHANGED periphery

\* a direct DesiredDriveState.set_steer_percent call
SetSteer(percent) ==
    /\ desired_state' = set_steer_percent(desired_state, percent)
    /\ last_op' = Op("set_steer_percent", "")
    /\ UNCHANGED <<coordinator, pan_tracker, follower, detections, raw, threads>>
    /\ UNCHANGED periphery

\* a direct DesiredDriveState.set_pan_percent call
SetPan(percent) ==
    /\ desired_state' = set_pan_percent(desired_state, percent)
    /\ last_op' = Op("set_pan_percent", "")
    /\ UNCHANGED <<coordinator, pan_tracker, follower, detections, raw, threads>>
    /\ UNCHANGED periphery

\* the percentages handed to the setters: in range, at the limits and beyond
SetterValues == {-150, -100, -12, 0, 12, 100, 150}

NextState ==
    \/ \E percent \in SetterValues : SetDrive(percent)
    \/ \E percent \in SetterValues : SetSteer(percent)
    \/ \E percent \in SetterValues : SetPan(percent)
    \/ \E percent \in SetterValues : SetTilt(percent)

SpecState == Init /\ [][NextState]_vars

\* the value a setter is required to store for the argument x
Clamped(x) == IF x < -100 THEN -100 ELSE IF x > 100 THEN 100 ELSE x

\* C13: after set_drive_percent(x), set_steer_percent(x), set_pan_percent(x)
\* or set_tilt_percent(x) the snapshot holds clamp(x, -100, 100) in that
\* setter's slot and the other three slots as before the call; a value out of
\* range is stored clamped, the call is never refused.
C13_SetterFrame ==
    /\ [][\A x \in SetterValues :
            /\ SetDrive(x) => snapshot(desired_state') =
                  <<Clamped(x), desired_state.steer, desired_state.pan, desired_state.tilt>>
            /\ SetSteer(x) => snapshot(desired_state') =
                  <<desired_state.drive, Clamped(x), desired_state.pan, desired_state.tilt>>
            /\ SetPan(x) => snapshot(desired_state') =
                  <<desired_state.drive, desired_state.steer, Clamped(x), desired_state.tilt>>
            /\ SetTilt(x) => snapshot(desired_state') =
                  <<desired_state.drive, desired_state.steer, desired_state.pan, Clamped(x)>>]_vars
    /\ [](\A x \in SetterValues :
            ENABLED SetDrive(x) /\ ENABLED SetSteer(x) /\ ENABLED SetPan(x) /\ ENABLED SetTilt(x))

\* the state of the clamping test: 150, -150 and two in-range values were set
C13_Witness ==
    /\ snapshot(desired_state) = <<100, -100, 12, -12>>
    /\ last_op.op = "set_tilt_percent"

-----------------------------------------------------------------------------
(* All writers of the desired state side by side: the coordinator's tick    *)
(* thread, the input thread (button events and axis events, which the       *)
(* socket server delivers one after the other) and a direct setter call.    *)
(* Every setter call is one step: it runs under DesiredDriveState._lock.    *)

\* on_axis up to the end of its `with self._lock` block: deadzone, raw update
\* and the copies drive, steer, pan, tilt (nothing else writes the raw axes,
\* so the copies are read back from them)
AxisRaw(index, value) ==
    /\ input_pc = "idle"
    /\ IF ~RecognisedAxis(index)
       THEN /\ last_op' = [op |-> "on_axis", branch |-> "ignored",
                           index |-> index, pressed |-> FALSE]
            /\ UNCHANGED <<raw, input_pc>>
       ELSE /\ raw' = RawAfter(raw, index, Deadzone(value))
            /\ input_pc' = "axis_drive"
            /\ UNCHANGED last_op
    /\ UNCHANGED <<coordinator, pan_tracker, follower, desired_state, detections,
                   tick_pc, tick_local>>
    /\ UNCHANGED periphery

\* `self.desired_state.set_drive_percent(scale_axis(drive))`
AxisSetDrive ==
    /\ input_pc = "axis_drive"
    /\ desired_state' = set_drive_percent(desired_state, scale_axis(raw.drive))
    /\ input_pc' = "axis_steer"
    /\ UNCHANGED <<coordinator, pan_tracker, follower, detections, raw,
                   tick_pc, tick_local, last_op>>
    /\ UNCHANGED periphery

\* `self.desired_state.set_steer_percent(scale_axis(steer))`
AxisSetSteer ==
    /\ input_pc = "axis_steer"
    /\ desired_state' = set_steer_percent(desired_state, scale_axis(raw.steer))
    /\ input_pc' = "axis_pan"
    /\ UNCHANGED <<coordinator, pan_tracker, follower, detections, raw,
                   tick_pc, tick_local, last_op>>
    /\ UNCHANGED periphery

\* `self.desired_state.set_pan_percent(scale_axis(-pan))`
AxisSetPan ==
    /\ input_pc = "axis_pan"
    /\ desired_state' = set_pan_percent(desired_state, scale_axis(-raw.pan))
    /\ input_pc' = "axis_tilt"
    /\ UNCHANGED <<coordinator, pan_tracker, follower, detections, raw,
                   tick_pc, tick_local, last_op>>
    /\ UNCHANGED periphery

\* `self.desired_state.set_tilt_percent(scale_axis(-tilt))` and the return
AxisSetTilt ==
    /\ input_pc = "axis_tilt"
    /\ desired_state' = set_tilt_percent(desired_state, scale_axis(-raw.tilt))
    /\ input_pc' = "idle"
    /\ last_op' = [op |-> "on_axis", branch |-> "written", index |-> 0, pressed |-> FALSE]
    /\ UNCHANGED <<coordinator, pan_tracker, follower, detections, raw,
                   tick_pc, tick_local>>
    /\ UNCHANGED periphery

AxisStep ==
    \/ \E index \in {PAN_AXIS, TILT_AXIS, 7} : AxisRaw(index, 1500)
    \/ AxisSetDrive
    \/ AxisSetSteer
    \/ AxisSetPan
    \/ AxisSetTilt

NextWriters ==
    \/ TickStep
    \/ InputStep
    \/ AxisStep
    \/ SetDrive(150)
    \/ ReadDetections(<<DetLeft>>)

SpecWriters == Init /\ [][NextWriters]_vars

\* C14: in every reachable state, after any interleaving of writes by the
\* axis mapper, the follow coordinator and direct setter calls, each of
\* drive, steer, pan and tilt lies in [-100, 100].
C14_DesiredStateInRange ==
    /\ desired_state.drive \in -100..100
    /\ desired_state.steer \in -100..100
    /\ desired_state.pan \in -100..100
    /\ desired_state.tilt \in -100..100

\* all three writers have written, two of them values beyond the range: the
\* direct call drive = 150, the axis mapper tilt = -1.5 and the coordinator,
\* in the middle of a tick, a steer value of its own
C14_Witness ==
    /\ desired_state.drive = 100
    /\ desired_state.tilt = -100
    /\ desired_state.steer = -10
    /\ tick_pc = "track_drive"
    /\ input_pc = "axis_pan"

-----------------------------------------------------------------------------
(* DesiredDriveState._lock: a thread in snapshot() against a thread in a    *)
(* setter, one step per acquisition, field access and release.              *)

\* a `with self._lock` that enters although another thread holds the lock
LockIgnored(lock) == TRUE

\* `with self._lock`: the block is entered only while no thread holds the lock
LockFree(lock) == lock = "free"

Slots == {"drive", "steer", "pan", "tilt"}

\* the setter of a slot applied to the stored state
SetSlot(ds, slot, percent) ==
    CASE slot = "drive" -> set_drive_percent(ds, percent)
      [] slot = "steer" -> set_steer_percent(ds, percent)
      [] slot = "pan" -> set_pan_percent(ds, percent)
      [] slot = "tilt" -> set_tilt_percent(ds, percent)

\* a thread calls set_<slot>_percent(percent)
SetterCall(slot, percent) ==
    /\ setter.pc = "idle"
    /\ setter' = [pc |-> "acquire", slot |-> slot, percent |-> percent]
    /\ UNCHANGED <<follow_state, desired_state, last_op, state_lock, snap>>
    /\ UNCHANGED <<actuator, network, lifecycle, remote, probe, unit, axis_threads>>

\* the setter's `with self._lock:`
SetterAcquire ==
    /\ setter.pc = "acquire"
    /\ LockFree(state_lock)
    /\ state_lock' = "setter"
    /\ setter' = [setter EXCEPT !.pc = "assign"]
    /\ UNCHANGED <<follow_state, desired_state, last_op, snap>>
    /\ UNCHANGED <<actuator, network, lifecycle, remote, probe, unit, axis_threads>>

\* `self.<slot> = _clamp_percent(percent)`
SetterAssign ==
    /\ setter.pc = "assign"
    /\ desired_state' = SetSlot(desired_state, setter.slot, setter.percent)
    /\ setter' = [setter EXCEPT !.pc = "release"]
    /\ UNCHANGED <<follow_state, last_op, state_lock, snap>>
    /\ UNCHANGED <<actuator, network, lifecycle, remote, probe, unit, axis_threads>>

\* the end of the setter's `with` block and its return
SetterRelease ==
    /\ setter.pc = "release"
    /\ state_lock' = "free"
    /\ setter' = [setter EXCEPT !.pc = "idle"]
    /\ last_op' = Op("setter", setter.slot)
    /\ UNCHANGED <<follow_state, desired_state, snap>>
    /\ UNCHANGED <<actuator, network, lifecycle, remote, probe, unit, axis_threads>>

\* a thread calls snapshot()
SnapCall ==
    /\ snap.pc = "idle"
    /\ snap' = [pc |-> "acquire", drive |-> 0, steer |-> 0, pan |-> 0, tilt |-> 0]
    /\ UNCHANGED <<follow_state, desired_state, last_op, state_lock, setter>>
    /\ UNCHANGED <<actuator, network, lifecycle, remote, probe, unit, axis_threads>>

\* snapshot's `with self._lock:`
SnapAcquire ==
    /\ snap.pc = "acquire"
    /\ LockFree(state_lock)
    /\ state_lock' = "snapshot"
    /\ snap' = [snap EXCEPT !.pc = "read_drive"]
    /\ UNCHANGED <<follow_state, desired_state, last_op, setter>>
    /\ UNCHANGED <<actuator, network, lifecycle, remote, probe, unit, axis_threads>>

\* `return self.drive, self.steer, self.pan, self.tilt`: the four attribute
\* reads, left to right
SnapRead ==
    /\ \/ /\ snap.pc = "read_drive"
          /\ snap' = [snap EXCEPT !.drive = desired_state.drive, !.pc = "read_steer"]
       \/ /\ snap.pc = "read_steer"
          /\ snap' = [snap EXCEPT !.steer = desired_state.steer, !.pc = "read_pan"]
       \/ /\ snap.pc = "read_pan"
          /\ snap' = [snap EXCEPT !.pan = desired_state.pan, !.pc = "read_tilt"]
       \/ /\ snap.pc = "read_tilt"
          /\ snap' = [snap EXCEPT !.tilt = desired_state.tilt, !.pc = "release"]
    /\ UNCHANGED <<follow_state, desired_state, last_op, state_lock, setter>>
    /\ UNCHANGED <<actuator, network, lifecycle, remote, probe, unit, axis_threads>>

\* the end of snapshot's `with` block; the tuple built is returned
SnapRelease ==
    /\ snap.pc = "release"
    /\ state_lock' = "free"
    /\ snap' = [snap EXCEPT !.pc = "idle"]
    /\ last_op' = Op("snapshot", "")
    /\ UNCHANGED <<follow_state, desired_state, setter>>
    /\ UNCHANGED <<actuator, network, lifecycle, remote, probe, unit, axis_threads>>

\* the percentages the setter thread writes
LockedValues == {-150, 12}

NextSnapshot ==
    \/ \E slot \in Slots, percent \in LockedValues : SetterCall(slot, percent)
    \/ SetterAcquire
    \/ SetterAssign
    \/ SetterRelease
    \/ SnapCall
    \/ SnapAcquire
    \/ SnapRead
    \/ SnapRelease

SpecSnapshot == Init /\ [][NextSnapshot]_vars

\* the tuple a snapshot() call has built
SnapTuple(sn) == <<sn.drive, sn.steer, sn.pan, sn.tilt>>

\* C15: snapshot() is atomic with respect to the setters: no setter writes
\* between its reads, so the 4-tuple it returns equals the stored values at
\* one single instant (the instant it returns).
C15_SnapshotAtomic ==
    /\ [](/\ snap.pc \in {"read_steer", "read_pan", "read_tilt", "release"}
                => snap.drive = desired_state.drive
          /\ snap.pc \in {"read_pan", "read_tilt", "release"}
                => snap.steer = desired_state.steer
          /\ snap.pc \in {"read_tilt", "release"}
                => snap.pan = desired_state.pan
          /\ snap.pc = "release" => snap.tilt = desired_state.tilt)
    /\ [][(snap.pc = "release" /\ snap'.pc = "idle") =>
            SnapTuple(snap') = <<desired_state'.drive, desired_state'.steer,
                                 desired_state'.pan, desired_state'.tilt>>]_vars
    /\ [][(snap.pc \in {"read_drive", "read_steer", "read_pan", "read_tilt", "release"})
            => desired_state' = desired_state]_vars

\* a snapshot is in the middle of its reads, the stored values all written
\* before, while a setter call has arrived and waits for the lock
C15_Witness ==
    /\ snap.pc = "read_pan"
    /\ state_lock = "snapshot"
    /\ setter.pc = "acquire"
    /\ desired_state = [drive |-> -100, steer |-> 12, pan |-> -100, tilt |-> 12]
    /\ snap.drive = -100 /\ snap.steer = 12

-----------------------------------------------------------------------------
(* The actuator loop: CrawlerController.serve_forever (steering, drive and  *)
(* pan mount) and PiCarController.serve_forever (steering, drive and, with  *)
(* a gimbal, pan and tilt). One step is one iteration of the loop: the      *)
(* snapshot it takes is atomic and the rest works on the iteration's locals.*)

\* a comparison that reports a change on every poll
DiffersAlways(value, last) == TRUE

\* `if steer != last_steer:` (None differs from every number)
Differs(value, last) == ~last.set \/ value # last.value

ControllerKinds == {"crawler", "picar", "picar_no_gimbal"}

\* a loop that serves the chassis only and forgets the pan mount / gimbal
HandlesChassisOnly(kind, slot) == slot \in {"steer", "drive"}

\* the axes a controller pushes to hardware
Handles(kind, slot) ==
    \/ slot \in {"steer", "drive"}
    \/ slot = "pan" /\ kind \in {"crawler", "picar"}
    \/ slot = "tilt" /\ kind = "picar"

\* the hardware setter behind an axis
HardwareSetter(slot) ==
    CASE slot = "steer" -> "set_steering_percent"
      [] slot = "drive" -> "set_drive_percent"
      [] slot = "pan" -> "set_pan_percent"
      [] slot = "tilt" -> "set_tilt_percent"

\* one `if x != last_x: setter(x); last_x = x` of the loop body: whether the
\* axis is pushed
Pushes(kind, slot, value, last) == Handles(kind, slot) /\ Differs(value, last)

\* the calls collected so far, followed by this axis's call if it is pushed
PushCall(calls, kind, slot, value, last) ==
    IF Pushes(kind, slot, value, last)
    THEN Append(calls, [setter |-> HardwareSetter(slot), value |-> value])
    ELSE calls

\* serve_forever up to the loop: the stop event cleared, the last values None
ServeForever(kind) ==
    /\ controller.pc = "idle"
    /\ controller' = [pc |-> "loop", kind |-> kind, stop |-> FALSE,
                      last |-> [drive |-> NoValue, steer |-> NoValue,
                                pan |-> NoValue, tilt |-> NoValue]]
    /\ last_op' = Op("serve_forever", kind)
    /\ UNCHANGED <<follow_state, desired_state, state_lock, snap, setter, hw, hw_calls>>
    /\ UNCHANGED <<network, lifecycle, remote, probe, unit, axis_threads>>

\* one iteration: snapshot, then steering, drive, pan and tilt in this order
Poll ==
    /\ controller.pc = "loop"
    /\ ~controller.stop
    /\ LET s == snapshot(desired_state)
           drive == s[1]
           steer == s[2]
           pan == s[3]
           tilt == s[4]
           kind == controller.kind
           last == controller.last
           value == [drive |-> drive, steer |-> steer, pan |-> pan, tilt |-> tilt]
           calls1 == PushCall(<<>>, kind, "steer", steer, last.steer)
           calls2 == PushCall(calls1, kind, "drive", drive, last.drive)
           calls3 == PushCall(calls2, kind, "pan", pan, last.pan)
           calls4 == PushCall(calls3, kind, "tilt", tilt, last.tilt)
       IN  /\ hw_calls' = calls4
           /\ controller' = [controller EXCEPT !.last =
                  [slot \in Slots |->
                      IF Pushes(kind, slot, value[slot], last[slot])
                      THEN SomeValue(value[slot]) ELSE last[slot]]]
           /\ hw' = [slot \in Slots |->
                      IF Pushes(kind, slot, value[slot], last[slot])
                      THEN SomeValue(value[slot]) ELSE hw[slot]]
    /\ last_op' = Op("poll", controller.kind)
    /\ UNCHANGED <<follow_state, desired_state, state_lock, snap, setter>>
    /\ UNCHANGED <<network, lifecycle, remote, probe, unit, axis_threads>>

\* CrawlerController.stop / PiCarController.stop
ControllerStop ==
    /\ controller.pc = "loop"
    /\ ~controller.stop
    /\ controller' = [controller EXCEPT !.stop = TRUE]
    /\ last_op' = Op("controller_stop", "")
    /\ UNCHANGED <<follow_state, desired_state, state_lock, snap, setter, hw, hw_calls>>
    /\ UNCHANGED <<network, lifecycle, remote, probe, unit, axis_threads>>

\* `while not self._stop_event.is_set()` finds the event set: the loop ends
LoopExit ==
    /\ controller.pc = "loop"
    /\ controller.stop
    /\ controller' = [controller EXCEPT !.pc = "returned"]
    /\ last_op' = Op("loop_exit", "")
    /\ UNCHANGED <<follow_state, desired_state, state_lock, snap, setter, hw, hw_calls>>
    /\ UNCHANGED <<network, lifecycle, remote, probe, unit, axis_threads>>

\* the percentages written to the desired state between polls
ActuatorValues == {-150, 40}

NextActuator ==
    \/ \E kind \in ControllerKinds : ServeForever(kind)
    \/ Poll
    \/ ControllerStop
    \/ LoopExit
    \/ \E percent \in ActuatorValues : SetDrive(percent)
    \/ \E percent \in ActuatorValues : SetSteer(percent)
    \/ \E percent \in ActuatorValues : SetPan(percent)
    \/ \E percent \in ActuatorValues : SetTilt(percent)

SpecActuator == Init /\ [][NextActuator]_vars

\* the calls of the latest poll that went to the hardware setter of an axis
CallsTo(calls, slot) ==
    LET name == CASE slot = "steer" -> "set_steering_percent"
                  [] slot = "drive" -> "set_drive_percent"
                  [] slot = "pan" -> "set_pan_percent"
                  [] slot = "tilt" -> "set_tilt_percent"
    IN  {i \in DOMAIN calls : calls[i].setter = name}

\* the axes each actuator loop handles
HandledAxes(kind) ==
    CASE kind = "crawler" -> {"steer", "drive", "pan"}
      [] kind = "picar" -> {"steer", "drive", "pan", "tilt"}
      [] kind = "picar_no_gimbal" -> {"steer", "drive"}

\* C16: in every poll of the actuator loop the hardware setter of an axis is
\* called exactly when the loop handles the axis and the snapshot value
\* differs from the value last pushed to that setter (the first poll pushes
\* every handled axis); the value pushed is the snapshot value and never
\* equals the value pushed to the same setter before; an axis whose value did
\* not change gets no call, whatever the other axes did.
C16_PushOnChangeOnly ==
    [][last_op'.op = "poll" =>
          /\ \A slot \in Slots :
                LET calls == CallsTo(hw_calls', slot)
                    changed == ~hw[slot].set \/ desired_state[slot] # hw[slot].value
                IN  /\ (calls # {}) <=> (slot \in HandledAxes(controller.kind) /\ changed)
                    /\ Cardinality(calls) <= 1
                    /\ \A i \in calls :
                          /\ hw_calls'[i].value = desired_state[slot]
                          /\ hw[slot].set => hw_calls'[i].value # hw[slot].value
                          /\ hw'[slot] = [set |-> TRUE, value |-> desired_state[slot]]
                    /\ (calls = {}) => hw'[slot] = hw[slot]
          /\ Len(hw_calls') =
                Cardinality({slot \in HandledAxes(controller.kind) :
                                ~hw[slot].set \/ desired_state[slot] # hw[slot].value})]_vars

\* a later poll of the crawler's loop after only the pan changed: one call,
\* to the pan mount, the steering and drive values pushed earlier left alone
C16_Witness ==
    /\ last_op = [op |-> "poll", branch |-> "crawler", index |-> 0, pressed |-> FALSE]
    /\ hw_calls = <<[setter |-> "set_pan_percent", value |-> 40]>>
    /\ hw.drive = [set |-> TRUE, value |-> -100]
    /\ hw.steer = [set |-> TRUE, value |-> 0]
    /\ hw.tilt = [set |-> FALSE, value |-> 0]
    /\ desired_state.tilt = 40

-----------------------------------------------------------------------------
(* RobotSocketServer: the 4-byte control frames.                             *)
(* A frame is a sequence of four bytes; an axis argument value / AXIS_SCALE  *)
(* is kept as the fraction <<numerator, denominator>>.                       *)

\* the big-endian signed 16-bit integer of two bytes (the `h` of ">BBh")
Signed16(high, low) ==
    LET unsigned == high * 256 + low
    IN  IF unsigned >= 32768 THEN unsigned - 65536 ELSE unsigned

\* FRAME_STRUCT.unpack(frame)
Unpack(frame) ==
    [msg_type |-> frame[1], index |-> frame[2], value |-> Signed16(frame[3], frame[4])]

\* a handler call; the arguments a handler does not take are left neutral
HandlerCall(handler, index, value, pressed, hat) ==
    [handler |-> handler, index |-> index, value |-> value, pressed |-> pressed, hat |-> hat]

\* floor division and modulo by 3 as Python computes them (value is in 0..8
\* where they are used)
FloorDiv3(value) == value \div 3

Mod3(value) == value % 3

\* the handlers the server was constructed with (all three, as in the test)
Handlers == [on_axis |-> TRUE, on_button |-> TRUE, on_hat |-> TRUE]

\* _handle_frame: the handler call it makes, or the ValueError it raises
HandleFrame(frame) ==
    LET f == Unpack(frame)
    IN  IF f.msg_type = TYPE_AXIS
        THEN [raised |-> FALSE,
              calls |-> IF Handlers.on_axis
                        THEN <<HandlerCall("on_axis", f.index, <<f.value, AXIS_SCALE>>,
                                           FALSE, <<0, 0>>)>>
                        ELSE <<>>]
        ELSE IF f.msg_type = TYPE_BUTTON
        THEN [raised |-> FALSE,
              calls |-> IF Handlers.on_button
                        THEN <<HandlerCall("on_button", f.index, <<0, 1>>, f.value # 0,
                                           <<0, 0>>)>>
                        ELSE <<>>]
        ELSE IF f.msg_type = TYPE_HAT
        THEN IF ~(0 <= f.value /\ f.value <= 8)
             THEN [raised |-> TRUE, calls |-> <<>>]
             ELSE [raised |-> FALSE,
                   calls |-> IF Handlers.on_hat
                             THEN <<HandlerCall("on_hat", f.index, <<0, 1>>, FALSE,
                                                <<FloorDiv3(f.value) - 1, Mod3(f.value) - 1>>)>>
                             ELSE <<>>]
        ELSE [raised |-> TRUE, calls |-> <<>>]

\* the first n elements of a sequence, and the rest
Take(seq, n) == SubSeq(seq, 1, n)

Drop(seq, n) == SubSeq(seq, n + 1, Len(seq))

\* a dispatch loop that forgets the bytes of an incomplete frame
RECURSIVE DispatchForgetful(_, _)
DispatchForgetful(buffer, calls) ==
    IF Len(buffer) < FRAME_SIZE
    THEN [raised |-> FALSE, buffer |-> <<>>, calls |-> calls]
    ELSE LET handled == HandleFrame(Take(buffer, FRAME_SIZE))
             rest == Drop(buffer, FRAME_SIZE)
         IN  IF handled.raised
             THEN [raised |-> TRUE, buffer |-> rest, calls |-> calls]
             ELSE DispatchForgetful(rest, calls \o handled.calls)

\* `while len(buffer) >= frame_size:` take a frame, delete it, handle it; the
\* loop ends when less than a frame is left or when a frame raises
RECURSIVE Dispatch(_, _)
Dispatch(buffer, calls) ==
    IF Len(buffer) < FRAME_SIZE
    THEN [raised |-> FALSE, buffer |-> buffer, calls |-> calls]
    ELSE LET handled == HandleFrame(Take(buffer, FRAME_SIZE))
             rest == Drop(buffer, FRAME_SIZE)
         IN  IF handled.raised
             THEN [raised |-> TRUE, buffer |-> rest, calls |-> calls]
             ELSE Dispatch(rest, calls \o handled.calls)

-----------------------------------------------------------------------------
(* RobotSocketServer: the thread in serve_forever, statement by statement.  *)
(* The listening socket is "none", "listening", "shutdown" or "closed" and  *)
(* queues at most one connection (backlog); the accepted connection is      *)
(* "none", "open", "shutdown" or "closed" on the server's side, its peer    *)
(* "none", "connected" or "closed"; wire holds the bytes sent by the peer   *)
(* and not yet received. Clients are numbered in the order of acceptance.   *)

\* everything outside the socket server
outside_network ==
    <<follow_state, desired_state, last_op, state_lock, snap, setter, actuator,
      lifecycle, remote, probe, unit, axis_threads>>

\* RobotSocketServer.start called before the serving thread exists
Start ==
    /\ serve.pc = "idle"
    /\ server.socket = "None"
    /\ server' = [server EXCEPT !.stop_event = FALSE, !.socket = "sock"]
    /\ net' = [net EXCEPT !.listener = "listening"]
    /\ UNCHANGED <<serve, stopper, session, outside_network>>

\* the serving thread is started with serve_forever as its target
ServeCall ==
    /\ serve.pc = "idle"
    /\ serve' = [serve EXCEPT !.pc = "start_check"]
    /\ UNCHANGED <<server, net, stopper, session, outside_network>>

\* `if self._socket is None: self.start()` up to start's own test
ServeStartCheck ==
    /\ serve.pc = "start_check"
    /\ serve' = [serve EXCEPT !.pc = IF server.socket = "None"
                                     THEN "start_clear" ELSE "assert"]
    /\ UNCHANGED <<server, net, stopper, session, outside_network>>

\* start: `self._stop_event.clear()`
ServeStartClear ==
    /\ serve.pc = "start_clear"
    /\ server' = [server EXCEPT !.stop_event = FALSE]
    /\ serve' = [serve EXCEPT !.pc = "start_listen"]
    /\ UNCHANGED <<net, stopper, session, outside_network>>

\* start: socket(), bind, listen and `self._socket = sock`
ServeStartListen ==
    /\ serve.pc = "start_listen"
    /\ net' = [net EXCEPT !.listener = "listening"]
    /\ server' = [server EXCEPT !.socket = "sock"]
    /\ serve' = [serve EXCEPT !.pc = "assert"]
    /\ UNCHANGED <<stopper, session, outside_network>>

\* `assert self._socket is not None`
ServeAssert ==
    /\ serve.pc = "assert"
    /\ serve' = [serve EXCEPT !.pc = IF server.socket = "None" THEN "raised" ELSE "loop"]
    /\ UNCHANGED <<server, net, stopper, session, outside_network>>

\* `while not self._stop_event.is_set():` of serve_forever
ServeLoop ==
    /\ serve.pc = "loop"
    /\ serve' = [serve EXCEPT !.pc = IF server.stop_event THEN "returned" ELSE "accept_load"]
    /\ UNCHANGED <<server, net, stopper, session, outside_network>>

\* `self._socket.accept`: the attribute lookup (AttributeError on None)
ServeAcceptLoad ==
    /\ serve.pc = "accept_load"
    /\ serve' = [serve EXCEPT !.pc = IF server.socket = "None" THEN "raised" ELSE "accept_wait"]
    /\ UNCHANGED <<server, net, stopper, session, outside_network>>

\* accept() fails with OSError on a shut down or closed listener: `break`
ServeAcceptError ==
    /\ serve.pc = "accept_wait"
    /\ net.listener \in {"shutdown", "closed"}
    /\ serve' = [serve EXCEPT !.pc = "returned"]
    /\ UNCHANGED <<server, net, stopper, session, outside_network>>

\* accept() returns the queued connection (and blocks while there is none)
ServeAccept ==
    /\ serve.pc = "accept_wait"
    /\ net.listener = "listening"
    /\ net.pending
    /\ net' = [net EXCEPT !.pending = FALSE, !.conn = "open",
                          !.peer = "connected", !.wire = <<>>]
    /\ serve' = [serve EXCEPT !.pc = "accepted", !.client = session.id + 1]
    /\ session' = [id |-> session.id + 1, sent |-> 0, received |-> <<>>, events |-> <<>>]
    /\ UNCHANGED <<server, stopper, outside_network>>

\* `self._client = client`
ServeAssignClient ==
    /\ serve.pc = "accepted"
    /\ server' = [server EXCEPT !.client = serve.client]
    /\ serve' = [serve EXCEPT !.pc = "settimeout"]
    /\ UNCHANGED <<net, stopper, session, outside_network>>

\* `client.settimeout(self.recv_timeout)` (OSError on a closed socket), then
\* _serve_client's `buffer = bytearray()`
ServeSetTimeout ==
    /\ serve.pc = "settimeout"
    /\ serve' = [serve EXCEPT !.pc = IF net.conn = "closed" THEN "finally_raise"
                                     ELSE "serve_loop",
                              !.buffer = <<>>]
    /\ UNCHANGED <<server, net, stopper, session, outside_network>>

\* `while not self._stop_event.is_set():` of _serve_client
ServeClientLoop ==
    /\ serve.pc = "serve_loop"
    /\ serve' = [serve EXCEPT !.pc = IF server.stop_event THEN "finally" ELSE "recv"]
    /\ UNCHANGED <<server, net, stopper, session, outside_network>>

\* recv returns the first n bytes on the wire; they are appended to the
\* buffer and every complete frame is handled; a ValueError leaves the loop
ServeRecvData(n) ==
    /\ serve.pc = "recv"
    /\ net.conn \in {"open", "shutdown"}
    /\ n \in 1..Len(net.wire)
    /\ LET chunk == Take(net.wire, n)
           result == Dispatch(serve.buffer \o chunk, <<>>)
       IN  /\ serve' = [serve EXCEPT !.buffer = result.buffer,
                                     !.pc = IF result.raised THEN "finally_raise"
                                            ELSE "serve_loop"]
           /\ session' = [session EXCEPT !.received = @ \o chunk,
                                         !.events = @ \o result.calls]
    /\ net' = [net EXCEPT !.wire = Drop(@, n)]
    /\ UNCHANGED <<server, stopper, outside_network>>

\* recv returns b"": the peer closed, or the socket was shut down: `break`
ServeRecvEnd ==
    /\ serve.pc = "recv"
    /\ net.wire = <<>>
    /\ \/ net.conn = "open" /\ net.peer = "closed"
       \/ net.conn = "shutdown"
    /\ serve' = [serve EXCEPT !.pc = "finally"]
    /\ UNCHANGED <<server, net, stopper, session, outside_network>>

\* recv raises socket.timeout: `continue`
ServeRecvTimeout ==
    /\ serve.pc = "recv"
    /\ net.conn = "open"
    /\ net.peer = "connected"
    /\ net.wire = <<>>
    /\ serve' = [serve EXCEPT !.pc = "serve_loop"]
    /\ UNCHANGED <<server, net, stopper, session, outside_network>>

\* recv on a socket closed by stop() raises OSError, which nothing catches
ServeRecvError ==
    /\ serve.pc = "recv"
    /\ net.conn = "closed"
    /\ serve' = [serve EXCEPT !.pc = "finally_raise"]
    /\ UNCHANGED <<server, net, stopper, session, outside_network>>

\* a session end that also closes the listening socket
ServeFinallyClosesListener ==
    /\ serve.pc \in {"finally", "finally_raise"}
    /\ net' = [net EXCEPT !.conn = "closed", !.peer = "none", !.wire = <<>>,
                          !.listener = "closed"]
    /\ server' = [server EXCEPT !.client = 0, !.socket = "None"]
    /\ serve' = [serve EXCEPT !.pc = IF serve.pc = "finally" THEN "loop" ELSE "raised"]
    /\ UNCHANGED <<stopper, session, outside_network>>

\* the `finally` of serve_forever: client.close() and `self._client = None`;
\* then the loop again, or the exception on its way out of serve_forever
ServeFinally ==
    /\ serve.pc \in {"finally", "finally_raise"}
    /\ net' = [net EXCEPT !.conn = "closed", !.peer = "none", !.wire = <<>>]
    /\ server' = [server EXCEPT !.client = 0]
    /\ serve' = [serve EXCEPT !.pc = IF serve.pc = "finally" THEN "loop" ELSE "raised"]
    /\ UNCHANGED <<stopper, session, outside_network>>

-----------------------------------------------------------------------------
(* RobotSocketServer.stop on another thread, statement by statement *)

\* stop() is called while serve_forever runs: `self._stop_event.set()`
StopCall ==
    /\ stopper.pc = "idle"
    /\ serve.pc \notin {"idle", "returned", "raised"}
    /\ server' = [server EXCEPT !.stop_event = TRUE]
    /\ stopper' = [stopper EXCEPT !.pc = "read_client"]
    /\ UNCHANGED <<net, serve, session, outside_network>>

\* `client = self._client` and `if client is not None:`
StopReadClient ==
    /\ stopper.pc = "read_client"
    /\ stopper' = [stopper EXCEPT !.client = server.client,
                                  !.pc = IF server.client = 0 THEN "read_sock"
                                         ELSE "client_shutdown"]
    /\ UNCHANGED <<server, net, serve, session, outside_network>>

\* `client.shutdown(socket.SHUT_RDWR)`, an OSError ignored
StopClientShutdown ==
    /\ stopper.pc = "client_shutdown"
    /\ net' = [net EXCEPT !.conn = IF stopper.client = session.id /\ net.conn = "open"
                                   THEN "shutdown" ELSE @]
    /\ stopper' = [stopper EXCEPT !.pc = "client_close"]
    /\ UNCHANGED <<server, serve, session, outside_network>>

\* `client.close()` and `if self._client is client: self._client = None`
StopClientClose ==
    /\ stopper.pc = "client_close"
    /\ net' = [net EXCEPT !.conn = IF stopper.client = session.id THEN "closed" ELSE @]
    /\ server' = [server EXCEPT !.client = IF @ = stopper.client THEN 0 ELSE @]
    /\ stopper' = [stopper EXCEPT !.pc = "read_sock"]
    /\ UNCHANGED <<serve, session, outside_network>>

\* `sock = self._socket` and `if sock is not None:`
StopReadSock ==
    /\ stopper.pc = "read_sock"
    /\ stopper' = [stopper EXCEPT !.sock = server.socket,
                                  !.pc = IF server.socket = "None" THEN "returned"
                                         ELSE "sock_shutdown"]
    /\ UNCHANGED <<server, net, serve, session, outside_network>>

\* `sock.shutdown(socket.SHUT_RDWR)`: a blocked accept() wakes with an error
StopSockShutdown ==
    /\ stopper.pc = "sock_shutdown"
    /\ net' = [net EXCEPT !.listener = "shutdown"]
    /\ stopper' = [stopper EXCEPT !.pc = "sock_close"]
    /\ UNCHANGED <<server, serve, session, outside_network>>

\* `sock.close()` and `if self._socket is sock: self._socket = None`
StopSockClose ==
    /\ stopper.pc = "sock_close"
    /\ net' = [net EXCEPT !.listener = "closed", !.pending = FALSE]
    /\ server' = [server EXCEPT !.socket = "None"]
    /\ stopper' = [stopper EXCEPT !.pc = "returned"]
    /\ UNCHANGED <<serve, session, outside_network>>

-----------------------------------------------------------------------------
(* The clients of the server *)

\* a client connects: the connection waits in the listener's queue
ClientConnect ==
    /\ net.listener = "listening"
    /\ ~net.pending
    /\ session.id < MaxClients
    /\ net' = [net EXCEPT !.pending = TRUE]
    /\ UNCHANGED <<server, serve, stopper, session, outside_network>>

\* the connected client sends one frame (sendall)
ClientSend(frame) ==
    /\ net.peer = "connected"
    /\ net.conn = "open"
    /\ session.sent < MaxFrames
    /\ net' = [net EXCEPT !.wire = @ \o frame]
    /\ session' = [session EXCEPT !.sent = @ + 1]
    /\ UNCHANGED <<server, serve, stopper, outside_network>>

\* the connected client closes its socket
ClientClose ==
    /\ net.peer = "connected"
    /\ net' = [net EXCEPT !.peer = "closed"]
    /\ UNCHANGED <<server, serve, stopper, session, outside_network>>

\* FRAME_STRUCT.pack(TYPE_AXIS, 3, 250): axis 3 at 0.25
FrameAxis == <<1, 3, 0, 250>>
\* FRAME_STRUCT.pack(TYPE_AXIS, 4, -500): axis 4 at -0.5
FrameAxisNegative == <<1, 4, 254, 12>>
\* FRAME_STRUCT.pack(TYPE_BUTTON, 2, 1)
FrameButton == <<0, 2, 0, 1>>
\* FRAME_STRUCT.pack(TYPE_HAT, 0, 5): hat (0, 1)
FrameHat == <<2, 0, 0, 5>>
\* a frame of unknown type 9
FrameUnknown == <<9, 0, 0, 0>>
\* a hat frame with value 9
FrameHatInvalid == <<2, 0, 0, 9>>

ValidFrames == {FrameAxis, FrameAxisNegative, FrameButton, FrameHat}

ServeStep ==
    \/ ServeCall
    \/ ServeStartCheck
    \/ ServeStartClear
    \/ ServeStartListen
    \/ ServeAssert
    \/ ServeLoop
    \/ ServeAcceptLoad
    \/ ServeAcceptError
    \/ ServeAccept
    \/ ServeAssignClient
    \/ ServeSetTimeout
    \/ ServeClientLoop
    \/ \E n \in 1..(FRAME_SIZE * MaxFrames) : ServeRecvData(n)
    \/ ServeRecvEnd
    \/ ServeRecvTimeout
    \/ ServeRecvError
    \/ ServeFinally

StopStep ==
    \/ StopCall
    \/ StopReadClient
    \/ StopClientShutdown
    \/ StopClientClose
    \/ StopReadSock
    \/ StopSockShutdown
    \/ StopSockClose

\* a server, one stop() call and clients that send well-formed frames
NextFrames ==
    \/ Start
    \/ ServeStep
    \/ StopStep
    \/ ClientConnect
    \/ \E frame \in ValidFrames : ClientSend(frame)
    \/ ClientClose

SpecFrames == Init /\ [][NextFrames]_vars

\* the k-th complete frame of a byte stream
FrameOf(stream, k) == SubSeq(stream, FRAME_SIZE * (k - 1) + 1, FRAME_SIZE * k)

\* the 16-bit two's complement value of the last two bytes of a frame
WireValue(frame) ==
    IF frame[3] >= 128 THEN frame[3] * 256 + frame[4] - 65536
    ELSE frame[3] * 256 + frame[4]

\* the handler call the protocol prescribes for a well-formed frame
IsCallFor(call, frame) ==
    /\ call.index = frame[2]
    /\ frame[1] = 1 => /\ call.handler = "on_axis"
                       /\ call.value[1] * 1000 = WireValue(frame) * call.value[2]
                       /\ call.value[2] > 0
    /\ frame[1] = 0 => /\ call.handler = "on_button"
                       /\ call.pressed = (WireValue(frame) # 0)
    /\ frame[1] = 2 => /\ call.handler = "on_hat"
                       /\ call.hat = <<(WireValue(frame) \div 3) - 1,
                                       (WireValue(frame) % 3) - 1>>
    /\ frame[1] \in {0, 1, 2}

\* C17: whatever well-formed frames a client sends and however recv splits
\* the stream, the handler calls of the session are exactly one per complete
\* 4-byte frame received, in stream order and with the decoded arguments
\* (AXIS: value/1000; BUTTON: value # 0; HAT: (value div 3 - 1, value mod 3
\* - 1)); the bytes of an incomplete trailing frame stay in the buffer and
\* are not dispatched; the frame of axis 3 at 0.25 gives on_axis(3, 0.25).
C17_FramesReassembledInOrder ==
    LET complete == Len(session.received) \div 4
    IN  /\ Len(session.events) = complete
        /\ \A k \in 1..complete :
              /\ IsCallFor(session.events[k], FrameOf(session.received, k))
              /\ FrameOf(session.received, k) = <<1, 3, 0, 250>> =>
                    /\ session.events[k].handler = "on_axis"
                    /\ session.events[k].index = 3
                    /\ session.events[k].value[1] * 4 = session.events[k].value[2]
        /\ serve.pc \in {"serve_loop", "recv", "finally"} =>
              serve.buffer = SubSeq(session.received, 4 * complete + 1,
                                    Len(session.received))

\* two frames arrived in pieces: the axis frame was dispatched as
\* on_axis(3, 0.25), three bytes of the hat frame wait in the buffer
C17_Witness ==
    /\ session.received = <<1, 3, 0, 250, 2, 0, 0>>
    /\ Len(session.events) = 1
    /\ session.events[1].handler = "on_axis"
    /\ session.events[1].value = <<250, 1000>>
    /\ serve.buffer = <<2, 0, 0>>
    /\ net.wire = <<5>>
    /\ serve.pc = "recv"

-----------------------------------------------------------------------------
(* The server with clients that also send malformed frames *)

AnyFrames == {FrameButton, FrameUnknown, FrameHatInvalid}

NextServer ==
    \/ Start
    \/ ServeStep
    \/ StopStep
    \/ ClientConnect
    \/ \E frame \in AnyFrames : ClientSend(frame)
    \/ ClientClose

SpecServer == Init /\ [][NextServer]_vars

\* a frame the protocol does not define: unknown type, or a hat value
\* outside 0..8
IsMalformed(frame) ==
    \/ frame[1] \notin {0, 1, 2}
    \/ frame[1] = 2 /\ (WireValue(frame) < 0 \/ WireValue(frame) > 8)

\* the complete frames of a stream that are well-formed
WellFormedFrames(stream) ==
    {k \in 1..(Len(stream) \div 4) : ~IsMalformed(FrameOf(stream, k))}

\* C18: a malformed frame (unknown type byte, or a HAT value outside 0..8)
\* is not fatal: as long as stop() has not been called the serving thread
\* stays inside serve_forever, and every well-formed complete frame the
\* client has delivered, before or after the malformed one, has produced its
\* handler call.
C18_MalformedFrameNonFatal ==
    stopper.pc = "idle" =>
        /\ serve.pc \notin {"finally_raise", "raised"}
        /\ Len(session.events) = Cardinality(WellFormedFrames(session.received))

-----------------------------------------------------------------------------
(* Sessions and shutdown of the server (SpecFrames) *)

\* the positions of the serving thread inside a client session
InSession == {"accepted", "settimeout", "serve_loop", "recv", "finally", "finally_raise"}

\* C19: client sessions are strictly sequential - while a client connection
\* is open the serving thread is inside that session, and a connection is
\* accepted only when no client is being served - and when a session ends by
\* the peer's disconnect (zero-length read) with stop() not called, the
\* client socket is closed, _client is cleared and the thread goes back to
\* accept on the same listening socket, which stays open.
C19_SessionsSequential ==
    /\ [](net.conn \in {"open", "shutdown"} => serve.pc \in InSession)
    /\ [][session'.id # session.id =>
            /\ session'.id = session.id + 1
            /\ serve.pc = "accept_wait"
            /\ net.conn \in {"none", "closed"}
            /\ server.client = 0]_vars
    /\ [][(stopper'.pc = "idle" /\ serve.pc = "recv" /\ serve'.pc = "finally") =>
            net.peer = "closed" /\ net.wire = <<>>]_vars
    /\ [][(stopper'.pc = "idle" /\ serve.pc = "finally" /\ serve' # serve) =>
            /\ net'.conn = "closed"
            /\ server'.client = 0
            /\ serve'.pc = "loop"]_vars
    /\ [][(stopper'.pc = "idle" /\ serve.pc = "loop" /\ serve' # serve) =>
            serve'.pc = "accept_load"]_vars
    /\ [][(stopper'.pc = "idle" /\ serve.pc = "accept_load" /\ serve' # serve) =>
            serve'.pc = "accept_wait"]_vars
    /\ [](stopper.pc = "idle" /\ serve.pc \in {"loop", "accept_load", "accept_wait"} =>
            net.listener = "listening" /\ server.socket = "sock")

\* the first client has sent a frame and disconnected; the thread is back in
\* accept on the open listener, where the next client already waits
C19_Witness ==
    /\ serve.pc = "accept_wait"
    /\ session.id = 1
    /\ Len(session.events) = 1
    /\ net.conn = "closed"
    /\ server.client = 0
    /\ net.listener = "listening"
    /\ net.pending
    /\ stopper.pc = "idle"

\* C20: once a stop() call made while serve_forever was running has
\* returned, the serving thread is never blocked in accept on a listening
\* socket and never inside a client session's receive loop with the stop
\* request gone: it has left serve_forever or is on its way out.
C20_StopTerminatesServer ==
    stopper.pc = "returned" =>
        /\ ~(serve.pc = "accept_wait" /\ net.listener = "listening")
        /\ ~(serve.pc \in {"serve_loop", "recv"} /\ ~server.stop_event)

-----------------------------------------------------------------------------
(* Objects that own a background loop: PersonFollowCoordinator,             *)
(* TelemetryStreamer, TelemetryPublisher, TelemetryReceiver. One thread     *)
(* calls start() and stop(), statement by statement; every loop thread      *)
(* started so far runs its loop: "check" is the `while not                  *)
(* self._stop_event.is_set()` test, "body" the tick / send / receive of     *)
(* one iteration, "wait" the interruptible wait that ends the iteration,    *)
(* "exited" the end of the thread. join(timeout) returns when the thread    *)
(* has ended or when the timeout has passed, whichever the scheduler and    *)
(* the duration of the iteration decide. The field told of a loop thread    *)
(* records that stop() has set the stop flag while the thread was running.  *)

MaxStarts == 2

\* everything outside the object and its loop threads
outside_lifecycle ==
    <<follow_state, desired_state, last_op, state_lock, snap, setter, actuator,
      network, remote, probe, unit, axis_threads>>

OwnerKinds == {"coordinator", "streamer"}

\* `self._thread is not None and self._thread.is_alive()`
ThreadAlive == owner.thread # 0 /\ loops[owner.thread].pc # "exited"

\* a call of start(); the kind of object is fixed by the first call
OwnerStart(kind) ==
    /\ owner.pc = "idle"
    /\ Len(loops) < MaxStarts
    /\ loops # <<>> => kind = owner.kind
    /\ owner' = [owner EXCEPT !.kind = kind, !.pc = "start_guard"]
    /\ UNCHANGED loops
    /\ UNCHANGED outside_lifecycle

\* TelemetryStreamer.start returns at once while its thread is alive;
\* PersonFollowCoordinator.start has no such test
OwnerStartGuard ==
    /\ owner.pc = "start_guard"
    /\ owner' = [owner EXCEPT !.pc = IF owner.kind # "coordinator" /\ ThreadAlive
                                      THEN "idle" ELSE "start_clear"]
    /\ UNCHANGED loops
    /\ UNCHANGED outside_lifecycle

\* `self._stop_event.clear()`
OwnerStartClear ==
    /\ owner.pc = "start_clear"
    /\ owner' = [owner EXCEPT !.stop_event = FALSE, !.pc = "start_spawn"]
    /\ UNCHANGED loops
    /\ UNCHANGED outside_lifecycle

\* `self._thread = threading.Thread(target=self._loop, ...); self._thread.start()`
OwnerStartSpawn ==
    /\ owner.pc = "start_spawn"
    /\ loops' = Append(loops, [pc |-> "check", told |-> FALSE])
    /\ owner' = [owner EXCEPT !.thread = Len(loops) + 1, !.pc = "idle"]
    /\ UNCHANGED outside_lifecycle

\* a call of stop(), started or not
OwnerStop ==
    /\ owner.pc = "idle"
    /\ owner' = [owner EXCEPT !.pc = "stop_set"]
    /\ UNCHANGED loops
    /\ UNCHANGED outside_lifecycle

\* `self._stop_event.set()`
OwnerStopSet ==
    /\ owner.pc = "stop_set"
    /\ owner' = [owner EXCEPT !.stop_event = TRUE, !.pc = "stop_join"]
    /\ loops' = [t \in DOMAIN loops |->
                    IF loops[t].pc # "exited"
                    THEN [loops[t] EXCEPT !.told = TRUE] ELSE loops[t]]
    /\ UNCHANGED outside_lifecycle

\* `if self._thread is not None: self._thread.join(timeout=...)`: the join
\* returns when the thread has ended or when the timeout has passed
OwnerStopJoin ==
    /\ owner.pc = "stop_join"
    /\ owner' = [owner EXCEPT !.pc = IF owner.thread = 0 THEN "idle"
                                      ELSE "stop_forget"]
    /\ UNCHANGED loops
    /\ UNCHANGED outside_lifecycle

\* `self._thread = None`
OwnerStopForget ==
    /\ owner.pc = "stop_forget"
    /\ owner' = [owner EXCEPT !.thread = 0, !.pc = "idle"]
    /\ UNCHANGED loops
    /\ UNCHANGED outside_lifecycle

\* `while not self._stop_event.is_set():`
LoopCheck(t) ==
    /\ loops[t].pc = "check"
    /\ loops' = [loops EXCEPT ![t].pc = IF owner.stop_event THEN "exited"
                                         ELSE "body"]
    /\ UNCHANGED owner
    /\ UNCHANGED outside_lifecycle

\* the body of one iteration: `self._tick()`, or get_telemetry / send_telemetry
LoopBody(t) ==
    /\ loops[t].pc = "body"
    /\ loops' = [loops EXCEPT ![t].pc = "wait"]
    /\ UNCHANGED owner
    /\ UNCHANGED outside_lifecycle

\* `self._stop_event.wait(interval)`: returns when the flag is set or the
\* interval has passed
LoopWait(t) ==
    /\ loops[t].pc = "wait"
    /\ loops' = [loops EXCEPT ![t].pc = "check"]
    /\ UNCHANGED owner
    /\ UNCHANGED outside_lifecycle

OwnerStep ==
    \/ \E kind \in OwnerKinds : OwnerStart(kind)
    \/ OwnerStartGuard
    \/ OwnerStartClear
    \/ OwnerStartSpawn
    \/ OwnerStop
    \/ OwnerStopSet
    \/ OwnerStopJoin
    \/ OwnerStopForget

LoopStep ==
    \E t \in DOMAIN loops :
        \/ LoopCheck(t)
        \/ LoopBody(t)
        \/ LoopWait(t)

\* the thread calling start() / stop() against the loop threads
NextLifecycle ==
    \/ OwnerStep
    \/ LoopStep

SpecLifecycle == Init /\ [][NextLifecycle]_vars

\* C21: once stop() has set the stop flag, a running loop begins no further
\* iteration: it leaves through the `while` test at the end of the iteration
\* or wait it is in (and a stop() before any start() has no effect on a later
\* start(), whose loop runs)
C21_StopEndsLoop ==
    [][\A t \in DOMAIN loops :
          (loops[t].told /\ loops'[t].pc = "body") => loops[t].pc = "body"]_vars

-----------------------------------------------------------------------------
(* robot_control: the operator's RobotSocketClient and its protocol module. *)
(* An axis value given to encode_axis is a number of ten-thousandths        *)
(* (0.2506 is 2506), so that value * AXIS_SCALE is a number of tenths and   *)
(* the rounding has work to do; a tie is rounded to the even neighbour, as  *)
(* Python's round does. A frame is its sequence of four bytes.              *)

\* everything outside the client and the pure-function calls
outside_remote ==
    <<follow_state, desired_state, last_op, state_lock, snap, setter, actuator,
      network, lifecycle, unit, axis_threads>>

\* round(n / d) for d > 0, ties to the even integer
RoundHalfEven(n, d) ==
    LET q == n \div d
        r == n % d
    IN  IF 2 * r < d THEN q
        ELSE IF 2 * r > d THEN q + 1
        ELSE IF q % 2 = 0 THEN q ELSE q + 1

\* FRAME_STRUCT.pack(msg_type, index, value): ">BBh", the value as 16-bit
\* two's complement, high byte first
Pack(msg_type, index, value) ==
    LET unsigned == value % 65536
    IN  <<msg_type % 256, index % 256, unsigned \div 256, unsigned % 256>>

\* _validate_index accepting one index too many
validate_index_lenient(index) ==
    [raised |-> ~(0 <= index /\ index <= 256), index |-> index]

\* _validate_index raises ValueError outside 0..255
validate_index(index) == [raised |-> ~(0 <= index /\ index <= 255), index |-> index]

\* _clamp_int16 left out: the scaled value goes to pack as it is
clamp_int16_absent(value) == value

\* _clamp_int16
clamp_int16(value) ==
    IF value < -32768 THEN -32768
    ELSE IF value > 32767 THEN 32767
    ELSE value

\* encode_axis: the frame, or the error of _validate_index
encode_axis(index, value) ==
    LET checked == validate_index(index)
        scaled == clamp_int16(RoundHalfEven(value * AXIS_SCALE, 10000))
    IN  IF checked.raised THEN [raised |-> TRUE, frame |-> <<>>]
        ELSE [raised |-> FALSE, frame |-> Pack(TYPE_AXIS, checked.index, scaled)]

\* encode_button
encode_button(index, pressed) ==
    LET checked == validate_index(index)
    IN  IF checked.raised THEN [raised |-> TRUE, frame |-> <<>>]
        ELSE [raised |-> FALSE,
              frame |-> Pack(TYPE_BUTTON, checked.index, IF pressed THEN 1 ELSE 0)]

\* encode_hat with the two components packed the other way round
encode_hat_transposed(index, value) ==
    LET checked == validate_index(index)
        x == value[1]
        y == value[2]
    IN  IF checked.raised THEN [raised |-> TRUE, frame |-> <<>>]
        ELSE IF x \notin {-1, 0, 1} \/ y \notin {-1, 0, 1}
        THEN [raised |-> TRUE, frame |-> <<>>]
        ELSE [raised |-> FALSE,
              frame |-> Pack(TYPE_HAT, checked.index, (y + 1) * 3 + (x + 1))]

\* encode_hat: index first, then the two components, then the packing
encode_hat(index, value) ==
    LET checked == validate_index(index)
        x == value[1]
        y == value[2]
    IN  IF checked.raised THEN [raised |-> TRUE, frame |-> <<>>]
        ELSE IF x \notin {-1, 0, 1} \/ y \notin {-1, 0, 1}
        THEN [raised |-> TRUE, frame |-> <<>>]
        ELSE [raised |-> FALSE,
              frame |-> Pack(TYPE_HAT, checked.index, (x + 1) * 3 + (y + 1))]

\* RobotSocketClient._send(payload), reached only when the encoder returned:
\* connect if there is no socket, then sendall
Send(call, encoded) ==
    /\ client' = IF encoded.raised
                 THEN [client EXCEPT !.call = call, !.raised = TRUE,
                                     !.payload = <<>>]
                 ELSE [socket |-> "connected", call |-> call, raised |-> FALSE,
                       payload |-> encoded.frame]
    /\ UNCHANGED <<receiver, probe>>
    /\ UNCHANGED outside_remote

\* RobotSocketClient.send_axis
SendAxis(index, value) ==
    Send(Call("send_axis", index, value, FALSE, <<0, 0>>), encode_axis(index, value))

\* RobotSocketClient.send_button
SendButton(index, pressed) ==
    Send(Call("send_button", index, 0, pressed, <<0, 0>>),
         encode_button(index, pressed))

\* RobotSocketClient.send_hat
SendHat(index, value) ==
    Send(Call("send_hat", index, 0, FALSE, value), encode_hat(index, value))

\* RobotSocketClient.close (no receive thread was started)
RobotClientClose ==
    /\ client.call.op # "close"
    /\ client' = [socket |-> "None", call |-> Call("close", 0, 0, FALSE, <<0, 0>>),
                  raised |-> FALSE, payload |-> <<>>]
    /\ UNCHANGED <<receiver, probe>>
    /\ UNCHANGED outside_remote

\* indices inside, at the ends of and outside 0..255
WireIndices == {-1, 0, 3, 255, 256}

\* axis values in ten-thousandths: on the 1/1000 grid, between grid points,
\* ties, the ends of [-1, 1], and values whose scaled magnitude leaves int16
WireAxisValues ==
    {-400000, -327685, -327680, -10000, -5004, -2500, -15, -5, 0, 4, 5, 15, 25,
     2506, 7500, 10000, 327670, 327674, 327680, 400000}

HatComponents == {-2, -1, 0, 1, 2}

NextClient ==
    \/ \E index \in WireIndices, value \in WireAxisValues : SendAxis(index, value)
    \/ \E index \in WireIndices, pressed \in BOOLEAN : SendButton(index, pressed)
    \/ \E index \in WireIndices, x \in HatComponents, y \in HatComponents :
          SendHat(index, <<x, y>>)
    \/ RobotClientClose

SpecClient == Init /\ [][NextClient]_vars

\* the handler call the server makes for the frame the client sent last
Delivered == HandleFrame(client.payload).calls[1]

\* C22: the frame of send_axis(i, v) is decoded by the server to on_axis with
\* index i and a value on the 1/1000 grid: v itself if v is on the grid, a
\* nearest grid point otherwise (at most half a grid step away), and the
\* nearest end of the int16 range / 1000 if v * 1000 lies outside it
C22_AxisRoundTrip ==
    (client.call.op = "send_axis" /\ ~client.raised) =>
        LET v == client.call.value
            got == HandleFrame(client.payload)
            k == Delivered.value[1]
        IN  /\ ~got.raised /\ Len(got.calls) = 1
            /\ Delivered.handler = "on_axis"
            /\ Delivered.index = client.call.index
            /\ Delivered.value[2] = 1000
            /\ (-10000 <= v /\ v <= 10000) =>
                  /\ Abs(10 * k - v) <= 5
                  /\ v % 10 = 0 => 10 * k = v
            /\ v > 327670 => k = 32767
            /\ v < -327680 => k = -32768
            /\ (-327680 <= v /\ v <= 327670) => Abs(10 * k - v) <= 5

\* send_axis(3, 0.2506) arrived as on_axis(3, 0.251)
C22_Witness ==
    /\ client.call = Call("send_axis", 3, 2506, FALSE, <<0, 0>>)
    /\ ~client.raised
    /\ Delivered.value = <<251, 1000>>

\* send_axis(255, 40.0) arrived clamped, as on_axis(255, 32.767)
C22_WitnessClamped ==
    /\ client.call = Call("send_axis", 255, 400000, FALSE, <<0, 0>>)
    /\ ~client.raised
    /\ Delivered.value = <<32767, 1000>>

\* the values encode_hat packs for the nine pairs of components
HatCodes == {(x + 1) * 3 + (y + 1) : x \in {-1, 0, 1}, y \in {-1, 0, 1}}

\* C23: send_hat(i, (x, y)) with x, y in {-1, 0, 1} puts (x+1)*3+(y+1) on the
\* wire, the nine pairs take the nine values 0..8, and the server's decoding
\* calls on_hat(i, (x, y)); send_button(i, pressed) arrives as
\* on_button(i, pressed) for both values of pressed
C23_HatButtonRoundTrip ==
    /\ HatCodes = 0..8
    /\ (client.call.op = "send_hat" /\ ~client.raised) =>
          /\ client.payload[1] = TYPE_HAT
          /\ WireValue(client.payload) =
                (client.call.hat[1] + 1) * 3 + (client.call.hat[2] + 1)
          /\ ~HandleFrame(client.payload).raised
          /\ Delivered.handler = "on_hat"
          /\ Delivered.index = client.call.index
          /\ Delivered.hat = client.call.hat
    /\ (client.call.op = "send_button" /\ ~client.raised) =>
          /\ client.payload[1] = TYPE_BUTTON
          /\ ~HandleFrame(client.payload).raised
          /\ Delivered.handler = "on_button"
          /\ Delivered.index = client.call.index
          /\ Delivered.pressed = client.call.pressed

\* send_hat(3, (1, -1)) went out as the value 6 and arrived as on_hat(3, (1, -1))
C23_Witness ==
    /\ client.call = Call("send_hat", 3, 0, FALSE, <<1, -1>>)
    /\ client.payload = <<2, 3, 0, 6>>
    /\ Delivered.hat = <<1, -1>>

\* the arguments of a send_* call that the encoders must refuse
Refused(call) ==
    \/ ~(0 <= call.index /\ call.index <= 255)
    \/ /\ call.op = "send_hat"
       /\ (call.hat[1] \notin {-1, 0, 1} \/ call.hat[2] \notin {-1, 0, 1})

\* C24: a send_* call with an index outside 0..255, or a hat component
\* outside {-1, 0, 1}, fails with an error, produces no frame and neither
\* connects nor sends; every other call produces one 4-byte frame and sends it
C24_EncodeValidation ==
    [][client'.call.op \in {"send_axis", "send_button", "send_hat"} =>
          IF Refused(client'.call)
          THEN /\ client'.raised
               /\ client'.payload = <<>>
               /\ client'.socket = client.socket
          ELSE /\ ~client'.raised
               /\ Len(client'.payload) = FRAME_SIZE
               /\ client'.socket = "connected"]_vars

\* send_hat(3, (2, 0)) on a client that was never connected: error, no socket
C24_Witness ==
    /\ client.call = Call("send_hat", 3, 0, FALSE, <<2, 0>>)
    /\ client.raised
    /\ client.socket = "None"
    /\ client.payload = <<>>

-----------------------------------------------------------------------------
(* Telemetry frames at the operator's side. A frame is TELEMETRY_STRUCT     *)
(* (">Bffffff"): the tag byte and six big-endian IEEE 754 single-precision  *)
(* numbers. A decoded number is kept as its sign bit, its exponent field    *)
(* and its fraction field, which every four bytes have (unpack accepts      *)
(* every bit pattern). A function that returns None returns NoTelemetry.    *)

TYPE_TELEMETRY == 16

TELEMETRY_SIZE == 25

\* struct's ">f": the number held by the four bytes of data from position at
Float32(data, at) ==
    [sign |-> data[at] \div 128,
     exponent |-> (data[at] % 128) * 2 + data[at + 1] \div 128,
     fraction |-> (data[at + 1] % 128) * 65536 + data[at + 2] * 256 + data[at + 3]]

\* the None that decode_telemetry returns
NoTelemetry == [valid |-> FALSE, fields |-> <<>>]

\* decode_telemetry without its tag test
decode_telemetry_untagged(data) ==
    IF Len(data) < TELEMETRY_SIZE THEN NoTelemetry
    ELSE [valid |-> TRUE,
          fields |-> [k \in 1..6 |-> Float32(SubSeq(data, 1, TELEMETRY_SIZE), 4 * k - 2)]]

\* decode_telemetry: None for a short or mistagged input, else the six
\* numbers unpacked from the first 25 bytes
decode_telemetry(data) ==
    IF Len(data) < TELEMETRY_SIZE THEN NoTelemetry
    ELSE IF data[1] # TYPE_TELEMETRY THEN NoTelemetry
    ELSE [valid |-> TRUE,
          fields |-> [k \in 1..6 |-> Float32(SubSeq(data, 1, TELEMETRY_SIZE), 4 * k - 2)]]

\* a call of decode_telemetry
DecodeTelemetry(data) ==
    /\ probe' = [fn |-> "decode_telemetry", input |-> data,
                 output |-> decode_telemetry(data)]
    /\ UNCHANGED remote
    /\ UNCHANGED outside_remote

\* byte strings: a first byte (the tag, the control types, others) and a body
\* of one of four patterns, cut to a length on either side of the frame size
TelemetryTags == {TYPE_TELEMETRY, TYPE_BUTTON, TYPE_AXIS, TYPE_HAT, 17, 255}

TelemetryBodies ==
    {[i \in 1..29 |-> 0],
     [i \in 1..29 |-> 255],
     [i \in 1..29 |-> (i * 37) % 256],
     [i \in 1..29 |-> IF i % 4 = 1 THEN 63 ELSE IF i % 4 = 2 THEN 128 ELSE 0]}

TelemetryLengths == {1, 24, 25, 26, 27, 30}

TelemetryInputs ==
    {<<>>} \cup
    {<<tag>> \o SubSeq(body, 1, length - 1) :
        tag \in TelemetryTags, body \in TelemetryBodies, length \in TelemetryLengths}

NextDecode ==
    \E data \in TelemetryInputs : DecodeTelemetry(data)

SpecDecode == Init /\ [][NextDecode]_vars

\* the upper and the lower 16 bits of the four bytes of data from position at
High16(data, at) == data[at] * 256 + data[at + 1]

Low16(data, at) == data[at + 2] * 256 + data[at + 3]

\* C25: decode_telemetry returns None exactly for the inputs shorter than 25
\* bytes and the inputs whose first byte is not the tag 0x10 (which is none
\* of the control types 0, 1, 2); for every other input it returns the six
\* numbers held by bytes 2..25, whatever follows them
C25_DecodeTelemetryTotal ==
    probe.fn = "decode_telemetry" =>
        LET data == probe.input
            out == probe.output
        IN  /\ TYPE_TELEMETRY \notin {TYPE_BUTTON, TYPE_AXIS, TYPE_HAT}
            /\ TYPE_TELEMETRY = 16
            /\ out.valid = (Len(data) >= 25 /\ data[1] = 16)
            /\ ~out.valid => out = NoTelemetry
            /\ out.valid =>
                  /\ Len(out.fields) = 6
                  /\ \A k \in 1..6 :
                        /\ out.fields[k].sign \in {0, 1}
                        /\ out.fields[k].exponent \in 0..255
                        /\ out.fields[k].fraction \in 0..8388607
                        /\ out.fields[k].sign * 32768
                             + out.fields[k].exponent * 128
                             + out.fields[k].fraction \div 65536
                                = High16(data, 4 * k - 2)
                        /\ out.fields[k].fraction % 65536 = Low16(data, 4 * k - 2)
                  /\ out = decode_telemetry(SubSeq(data, 1, 25))

\* a 30-byte input with the tag: six numbers 1.0 (sign 0, exponent 127,
\* fraction 0) come back and the five bytes after the frame are ignored
C25_Witness ==
    /\ probe.fn = "decode_telemetry"
    /\ Len(probe.input) = 30
    /\ probe.output.valid
    /\ \A k \in 1..6 :
          probe.output.fields[k] = [sign |-> 0, exponent |-> 127, fraction |-> 0]

-----------------------------------------------------------------------------
(* RobotSocketClient._receive_loop. The robot's side of the connection      *)
(* sends the bytes of receiver.feed: a run of garbage bytes and then        *)
(* telemetry frames; recv returns them in chunks of any length. One pass    *)
(* of the loop is one recv and the processing loop that follows it. A recv  *)
(* that times out changes nothing and is not modelled as a step;            *)
(* on_telemetry is installed and appends to receiver.delivered.             *)

MaxTelemetry == 2

\* `self._socket.recv(1024)`
RECV_SIZE == 1024

\* RobotSocketClient.connect
RobotClientConnect ==
    /\ client.socket = "None"
    /\ client' = [client EXCEPT !.socket = "connected"]
    /\ UNCHANGED <<receiver, probe>>
    /\ UNCHANGED outside_remote

\* one iteration of `while len(buf) >= TELEMETRY_STRUCT.size:` that puts a
\* mistagged byte through decode_telemetry's length test only
ProcessStepTrusting(rx) ==
    LET td == decode_telemetry_untagged(Take(rx.buf, TELEMETRY_SIZE))
    IN  [rx EXCEPT !.buf = Drop(rx.buf, TELEMETRY_SIZE),
                   !.delivered = Append(rx.delivered, td)]

\* one iteration of `while len(buf) >= TELEMETRY_STRUCT.size:`
ProcessStep(rx) ==
    IF rx.buf[1] = TYPE_TELEMETRY
    THEN LET td == decode_telemetry(Take(rx.buf, TELEMETRY_SIZE))
         IN  [rx EXCEPT !.buf = Drop(rx.buf, TELEMETRY_SIZE),
                        !.delivered = IF td.valid THEN Append(rx.delivered, td)
                                      ELSE rx.delivered]
    ELSE [rx EXCEPT !.buf = Drop(rx.buf, 1)]

\* the processing loop of one pass
RECURSIVE Process(_)
Process(rx) ==
    IF Len(rx.buf) >= TELEMETRY_SIZE THEN Process(ProcessStep(rx)) ELSE rx

\* the bytes of a feed in the order they are sent
RECURSIVE Flatten(_)
Flatten(frames) ==
    IF frames = <<>> THEN <<>> ELSE Head(frames) \o Flatten(Tail(frames))

Stream(feed) == feed.garbage \o Flatten(feed.frames)

\* start_receiving on a connected client, facing a robot that sends feed
StartReceiving(garbage, frames) ==
    /\ client.socket = "connected"
    /\ receiver.pc = "idle"
    /\ receiver' = [receiver EXCEPT !.pc = "recv",
                                    !.feed = [garbage |-> garbage, frames |-> frames]]
    /\ UNCHANGED <<client, probe>>
    /\ UNCHANGED outside_remote

\* one pass: recv returns the next n bytes, buf.extend(chunk), processing loop
ReceivePass(n) ==
    /\ receiver.pc = "recv"
    /\ n >= 1
    /\ receiver.received + n <= Len(Stream(receiver.feed))
    /\ LET chunk == SubSeq(Stream(receiver.feed), receiver.received + 1,
                           receiver.received + n)
       IN  receiver' = Process([receiver EXCEPT !.buf = receiver.buf \o chunk,
                                                !.received = receiver.received + n])
    /\ UNCHANGED <<client, probe>>
    /\ UNCHANGED outside_remote

\* the loop ends: recv returned b"" (the robot closed the connection), recv
\* raised OSError, or close() set the stop event
ReceiveEnd ==
    /\ receiver.pc = "recv"
    /\ receiver' = [receiver EXCEPT !.pc = "exited"]
    /\ UNCHANGED <<client, probe>>
    /\ UNCHANGED outside_remote

\* a frame of six numbers 1.0, and a frame whose payload bytes all equal the tag
TelemetryOnes ==
    <<TYPE_TELEMETRY>> \o
    [i \in 1..24 |-> IF i % 4 = 1 THEN 63 ELSE IF i % 4 = 2 THEN 128 ELSE 0]

TelemetryTagged == [i \in 1..25 |-> TYPE_TELEMETRY]

TelemetryFrames == {TelemetryOnes, TelemetryTagged}

\* garbage runs without a tag byte: none, shorter and longer than a frame
GarbageRuns ==
    {<<>>, <<0>>, <<7, 1, 2>>, [i \in 1..26 |-> i % 16]}

FrameRuns ==
    UNION {[1..k -> TelemetryFrames] : k \in 0..MaxTelemetry}

NextReceive ==
    \/ RobotClientConnect
    \/ \E garbage \in GarbageRuns, frames \in FrameRuns :
          StartReceiving(garbage, frames)
    \/ \E n \in 1..Min(RECV_SIZE, Len(Stream(receiver.feed)) - receiver.received) :
          ReceivePass(n)
    \/ ReceiveEnd

SpecReceive == Init /\ [][NextReceive]_vars

\* C26: in the processing loop an iteration on a buffer of at least 25 bytes
\* consumes 25 bytes and delivers one telemetry record if the first byte is
\* the tag, and drops one byte if it is not; so for garbage without a tag
\* byte followed by telemetry frames, however recv cuts the stream, the
\* records delivered after each pass are those of the frames received in
\* full, once each and in order, and fewer than 25 bytes stay buffered
C26_TelemetryResync ==
    receiver.pc \in {"recv", "exited"} =>
        LET stream == Stream(receiver.feed)
            g == Len(receiver.feed.garbage)
            r == receiver.received
            n == IF r >= g THEN (r - g) \div 25 ELSE 0
            ahead == receiver.buf \o SubSeq(stream, r + 1, Len(stream))
            after == ProcessStep([receiver EXCEPT !.buf = ahead])
        IN  /\ Len(receiver.buf) < 25
            /\ receiver.buf = SubSeq(stream, r - Len(receiver.buf) + 1, r)
            /\ Len(receiver.delivered) = n
            /\ \A k \in 1..n :
                  /\ receiver.delivered[k].valid
                  /\ receiver.delivered[k] = decode_telemetry(receiver.feed.frames[k])
            /\ r = Len(stream) => n = Len(receiver.feed.frames)
            /\ Len(ahead) >= 25 =>
                  IF ahead[1] = 16
                  THEN /\ after.buf = SubSeq(ahead, 26, Len(ahead))
                       /\ Len(after.delivered) = n + 1
                       /\ SubSeq(after.delivered, 1, n) = receiver.delivered
                  ELSE /\ after.buf = SubSeq(ahead, 2, Len(ahead))
                       /\ after.delivered = receiver.delivered

\* 26 garbage bytes and two frames, the first with a payload full of tag
\* bytes, have arrived: both records were delivered
C26_Witness ==
    /\ receiver.pc = "recv"
    /\ Len(receiver.feed.garbage) = 26
    /\ receiver.feed.frames = <<TelemetryTagged, TelemetryOnes>>
    /\ receiver.received = 76
    /\ Len(receiver.delivered) = 2
    /\ receiver.delivered[2].fields[1] = [sign |-> 0, exponent |-> 127, fraction |-> 0]
    /\ receiver.buf = <<>>

-----------------------------------------------------------------------------
(* The axis mapper alone: DesiredStateUpdater.on_axis is the only writer of *)
(* the desired state (the unit tests of drive_state). probe keeps the       *)
(* arguments of the latest call and, as its output, the value most recently *)
(* received on each of the four axes (0 before the first).                  *)

\* the values received most recently, after a call with index and value
ReceivedAfter(log, index, value) ==
    IF index = DRIVE_AXIS THEN [log EXCEPT !.drive = value]
    ELSE IF index = STEER_AXIS THEN [log EXCEPT !.steer = value]
    ELSE IF index = PAN_AXIS THEN [log EXCEPT !.pan = value]
    ELSE IF index = TILT_AXIS THEN [log EXCEPT !.tilt = value]
    ELSE log

\* the values received so far
Received ==
    IF probe.fn = "on_axis" THEN probe.output
    ELSE [drive |-> 0, steer |-> 0, pan |-> 0, tilt |-> 0]

\* a call of on_axis on an updater that is the only writer
AxisCall(index, value) ==
    /\ on_axis(index, value)
    /\ probe' = [fn |-> "on_axis", input |-> <<index, value>>,
                 output |-> ReceivedAfter(Received, index, value)]
    /\ UNCHANGED <<state_lock, snap, setter, actuator, network, lifecycle, remote,
                   unit, axis_threads>>

\* axis values in thousandths: inside the deadzone, at its edge, the values
\* of the unit test, and beyond full deflection
AxisInputs == {-1000, -49, 50, 500, 750, 1500}

NextAxes ==
    \E index \in AxisIndices, value \in AxisInputs : AxisCall(index, value)

SpecAxes == Init /\ [][NextAxes]_vars

Defaults == [drive |-> 0, steer |-> 0, pan |-> 0, tilt |-> 0]

\* C27: on_axis(index, v) with |v| < 0.05 changes the state exactly as
\* on_axis(index, 0) does; on a fresh mapper and state such a call on the
\* drive axis leaves the desired state at (0, 0, 0, 0); a value of magnitude
\* 0.05 is not filtered (it is written as 5 percent)
C27_Deadzone ==
    [][\A index \in AxisIndices, value \in AxisInputs :
          AxisCall(index, value) =>
             /\ Abs(value) < 50 =>
                   /\ on_axis(index, 0)
                   /\ (index = DRIVE_AXIS /\ probe.fn = "none") =>
                         desired_state' = Defaults
             /\ (Abs(value) = 50 /\ index = DRIVE_AXIS) =>
                   /\ raw'.drive = -value
                   /\ desired_state'.drive = -5 * (value \div 50)]_vars

\* on_axis(4, -0.049) was the first call: nothing moved
C27_Witness ==
    /\ probe.fn = "on_axis"
    /\ probe.input = <<DRIVE_AXIS, -49>>
    /\ probe.output = [drive |-> -49, steer |-> 0, pan |-> 0, tilt |-> 0]
    /\ desired_state = Defaults
    /\ raw = Defaults

\* the percentage the mapper owes for a received value of given sign
\* convention: deadzone, times 100, clamped to [-100, 100]
Owed(sign, value) ==
    LET filtered == IF -50 < value /\ value < 50 THEN 0 ELSE value
        percent == (sign * filtered) \div 10
    IN  IF percent > 100 THEN 100 ELSE IF percent < -100 THEN -100 ELSE percent

\* C28: with on_axis as the only writer, after every call the desired state
\* is (clamp(-100 d), clamp(100 s), clamp(-100 p), clamp(-100 t)) for the
\* deadzone-filtered values d, s, p, t most recently received on axes 4, 3, 0
\* and 1 (0 if none), each axis by itself: on_axis(4, 0.5) and on_axis(3,
\* 0.75) give drive -50 and steer 75; a call with an unrecognised index
\* changes neither the stored raw values nor the desired state
C28_PerAxisScaling ==
    [][LET got == probe'.output
       IN  /\ DRIVE_AXIS = 4 /\ STEER_AXIS = 3 /\ PAN_AXIS = 0 /\ TILT_AXIS = 1
           /\ desired_state' = [drive |-> Owed(-1, got.drive),
                                steer |-> Owed(1, got.steer),
                                pan |-> Owed(-1, got.pan),
                                tilt |-> Owed(-1, got.tilt)]
           /\ (got.drive = 500 /\ got.steer = 750) =>
                 (desired_state'.drive = -50 /\ desired_state'.steer = 75)
           /\ probe'.input[1] \notin {4, 3, 0, 1} =>
                 (desired_state' = desired_state /\ raw' = raw /\ got = Received)]_vars

\* the four calls of the unit test, the pan axis pushed beyond full deflection
C28_Witness ==
    /\ probe.fn = "on_axis"
    /\ probe.output = [drive |-> 500, steer |-> 750, pan |-> 1500, tilt |-> -1000]
    /\ desired_state = [drive |-> -50, steer |-> 75, pan |-> -100, tilt |-> 100]

-----------------------------------------------------------------------------
(* circle_to_square (shared_lib.drive_state.state and pi_car.controller     *)
(* hold the same text). Its inputs are stick deflections in hundredths. A   *)
(* number met on the way (a hypotenuse, a quotient by it) is kept exactly,  *)
(* as its sign and the square of its magnitude, a reduced fraction:         *)
(* [sign, num, den] is sign * sqrt(num / den). The arithmetic is the real   *)
(* arithmetic that the floats of the code approximate.                      *)

RECURSIVE Gcd(_, _)
Gcd(a, b) == IF b = 0 THEN a ELSE Gcd(b, a % b)

Sgn(v) == IF v > 0 THEN 1 ELSE IF v < 0 THEN -1 ELSE 0

\* a number in lowest terms; zero is [0, 0, 1]
Reduced(s) ==
    IF s.sign = 0 \/ s.num = 0 THEN [sign |-> 0, num |-> 0, den |-> 1]
    ELSE LET g == Gcd(s.num, s.den)
         IN  [sign |-> s.sign, num |-> s.num \div g, den |-> s.den \div g]

\* the float of a grid value
Exact(v) == [sign |-> Sgn(v), num |-> v * v, den |-> 1]

\* math.hypot(x, y)
Hypot(x, y) == Reduced([sign |-> 1, num |-> x * x + y * y, den |-> 1])

\* a / b for b # 0
Quotient(a, b) ==
    Reduced([sign |-> a.sign * b.sign, num |-> a.num * b.den, den |-> a.den * b.num])

\* a * b
Product(a, b) ==
    Reduced([sign |-> a.sign * b.sign, num |-> a.num * b.num, den |-> a.den * b.den])

\* abs(a)
Magnitude(a) == [a EXCEPT !.sign = IF a.sign = 0 THEN 0 ELSE 1]

\* max(a, b) of two magnitudes
Larger(a, b) == IF a.num * b.den >= b.num * a.den THEN a ELSE b

\* circle_to_square that returns the direction on the square's border
\* without scaling it back by r
circle_to_square_unscaled(x, y) ==
    LET r == Hypot(x, y)
        ux == Quotient(Exact(x), r)
        uy == Quotient(Exact(y), r)
        m == Larger(Magnitude(ux), Magnitude(uy))
    IN  IF r.num = 0 THEN <<Exact(0), Exact(0)>>
        ELSE <<Quotient(ux, m), Quotient(uy, m)>>

\* circle_to_square; on the grid r < 1e-9 is r = 0
circle_to_square(x, y) ==
    LET r == Hypot(x, y)
        ux == Quotient(Exact(x), r)
        uy == Quotient(Exact(y), r)
        m == Larger(Magnitude(ux), Magnitude(uy))
        sx == Quotient(ux, m)
        sy == Quotient(uy, m)
    IN  IF r.num = 0 THEN <<Exact(0), Exact(0)>>
        ELSE <<Product(sx, r), Product(sy, r)>>

\* a call of circle_to_square
CircleToSquare(x, y) ==
    /\ probe' = [fn |-> "circle_to_square", input |-> <<x, y>>,
                 output |-> circle_to_square(x, y)]
    /\ UNCHANGED remote
    /\ UNCHANGED outside_remote

\* stick deflections in hundredths, up to beyond the unit circle
StickValues == {-150, -100, -75, -50, -5, 0, 5, 30, 50, 100, 150}

NextRemap ==
    \E x \in StickValues, y \in StickValues : CircleToSquare(x, y)

SpecRemap == Init /\ [][NextRemap]_vars

\* C30: circle_to_square(0, 0) is (0, 0); an input on an axis comes back
\* unchanged; for |x| = |y| both outputs have the magnitude r = hypot(x, y);
\* and for every input each output has the sign of its input and the larger
\* of the two output magnitudes is r
C30_CircleToSquare ==
    probe.fn = "circle_to_square" =>
        LET x == probe.input[1]
            y == probe.input[2]
            out == probe.output
            rr == x * x + y * y
            IsR(s) == s.num = rr * s.den
            Below(s) == s.num <= rr * s.den
        IN  /\ (x = 0 /\ y = 0) => out = <<Exact(0), Exact(0)>>
            /\ y = 0 => out = <<Exact(x), Exact(0)>>
            /\ x = 0 => out = <<Exact(0), Exact(y)>>
            /\ (Abs(x) = Abs(y)) => (IsR(out[1]) /\ IsR(out[2]))
            /\ out[1].sign = Sgn(x) /\ out[2].sign = Sgn(y)
            /\ out[1].den > 0 /\ out[2].den > 0
            /\ Below(out[1]) /\ Below(out[2])
            /\ IsR(out[1]) \/ IsR(out[2])

\* circle_to_square(0.5, -0.5) = (sqrt(0.5), -sqrt(0.5)): both of magnitude r
C30_Witness ==
    /\ probe.fn = "circle_to_square"
    /\ probe.input = <<50, -50>>
    /\ probe.output = <<[sign |-> 1, num |-> 5000, den |-> 1],
                        [sign |-> -1, num |-> 5000, den |-> 1]>>

\* circle_to_square(1, 0) = (1, 0)
C30_WitnessAxis ==
    /\ probe.fn = "circle_to_square"
    /\ probe.input = <<100, 0>>
    /\ probe.output = <<Exact(100), Exact(0)>>

\* a written whole percentage equals the exact number s clamped to [-100, 100]
IsClamped(percent, s) ==
    IF s.num > 10000 * s.den THEN percent = 100 * s.sign
    ELSE /\ Sgn(percent) = s.sign
         /\ percent * percent * s.den = s.num

\* C29: after every on_axis call of shared_lib's DesiredStateUpdater the
\* desired (steer, drive) and (pan, tilt) are the stored raw pairs put
\* through circle_to_square, then scaled by 100 (pan and tilt negated) and
\* clamped: with both members of a pair nonzero, the remapped values and not
\* the plain products
C29_RemapInAxisMapper ==
    probe.fn = "on_axis" =>
        LET wheel == circle_to_square(raw.steer \div 10, raw.drive \div 10)
            head == circle_to_square(raw.pan \div 10, raw.tilt \div 10)
        IN  /\ IsClamped(desired_state.steer, wheel[1])
            /\ IsClamped(desired_state.drive, wheel[2])
            /\ IsClamped(-desired_state.pan, head[1])
            /\ IsClamped(-desired_state.tilt, head[2])

-----------------------------------------------------------------------------
(* PIDController and PanTracker on their own (test_pid, test_pan_tracker).   *)
(* unit is the object a test builds and the latest call on it: gains are the *)
(* constructor's numbers, errors, deviations, the integral and its limit are *)
(* in hundredths, unit.out is the return value (hundredths for               *)
(* PIDController.update, whole percent for PanTracker.update).               *)

outside_unit ==
    <<follow_state, desired_state, last_op, state_lock, snap, setter, actuator,
      network, lifecycle, remote, probe, axis_threads>>

Gains(kp, ki, kd, integral_limit) ==
    [NoUnit.gains EXCEPT !.kp = kp, !.ki = ki, !.kd = kd,
                         !.integral_limit = integral_limit]

\* PIDController(kp, ki, kd, integral_limit)
PidConstruct(gains) ==
    /\ unit' = [NoUnit EXCEPT !.kind = "pid", !.gains = gains, !.op = "construct"]
    /\ UNCHANGED outside_unit

\* pid.update(error), elapsed after the previous call
PidUpdateCall(error, elapsed) ==
    /\ unit.kind = "pid"
    /\ LET r == PidUpdate(unit.gains, unit.pid, error, elapsed)
       IN  unit' = [unit EXCEPT !.pid = r.pid, !.op = "update", !.arg = error,
                                !.out = r.sum]
    /\ UNCHANGED outside_unit

\* pid.reset()
PidResetCall ==
    /\ unit.kind = "pid"
    /\ unit' = [unit EXCEPT !.pid = PidReset(unit.pid), !.op = "reset", !.arg = 0,
                            !.out = 0]
    /\ UNCHANGED outside_unit

\* PanTracker.update that takes the clamped PID output as the position itself
\* instead of adding it to the held position
PanTrackerUpdateAbsolute(gains, max_step, tracker, deviation, elapsed) ==
    LET r == PidUpdate(gains, tracker.pid, deviation, elapsed)
        correction == Max(-max_step, Min(max_step, r.out))
    IN  [position |-> Max(-100, Min(100, correction)),
         pid |-> r.pid]

\* PanTracker.update without the limit of max_step per call
PanTrackerUpdateUnlimited(gains, max_step, tracker, deviation, elapsed) ==
    LET r == PidUpdate(gains, tracker.pid, deviation, elapsed)
    IN  [position |-> Max(-100, Min(100, tracker.position + r.out)),
         pid |-> r.pid]

\* PanTracker.update with the tracker's own PID gains and max_step
PanTrackerUpdateWith(gains, max_step, tracker, deviation, elapsed) ==
    LET r == PidUpdate(gains, tracker.pid, deviation, elapsed)
        correction == Max(-max_step, Min(max_step, r.out))
    IN  [position |-> Max(-100, Min(100, tracker.position + correction)),
         pid |-> r.pid]

\* PanTracker(pid=PIDController(...), max_step)
TrackerConstruct(gains, max_step) ==
    /\ unit' = [NoUnit EXCEPT !.kind = "tracker", !.gains = gains,
                              !.max_step = max_step, !.op = "construct"]
    /\ UNCHANGED outside_unit

\* tracker.update(deviation), elapsed after the previous call
TrackerUpdateCall(deviation, elapsed) ==
    /\ unit.kind = "tracker"
    /\ LET t == PanTrackerUpdateWith(unit.gains, unit.max_step,
                                     [position |-> unit.position, pid |-> unit.pid],
                                     deviation, elapsed)
       IN  unit' = [unit EXCEPT !.pid = t.pid, !.position = t.position,
                                !.op = "update", !.arg = deviation,
                                !.out = t.position]
    /\ UNCHANGED outside_unit

\* tracker.reset(position)
TrackerResetCall(position) ==
    /\ unit.kind = "tracker"
    /\ LET t == PanTrackerReset([position |-> unit.position, pid |-> unit.pid],
                                position)
       IN  unit' = [unit EXCEPT !.pid = t.pid, !.position = t.position,
                                !.op = "reset", !.arg = position, !.out = 0]
    /\ UNCHANGED outside_unit

\* the controllers the tests of test_pid build, with small integral limits:
\* P only, I only with integral_limit=5.0, and all three gains
PidGains == {Gains(2, 0, 0, 300), Gains(0, 1, 0, 500), Gains(1, 1, 1, 300)}

\* errors of -100.0, -0.5, 0.0, 1.0 and 100.0
PidErrors == {-10000, -50, 0, 100, 10000}

\* the trackers the tests of test_pan_tracker build: kp=10 and kp=50, ki=10
\* with the default max_step, and kp=200 with a large max_step
TrackerBuilds == {<<Gains(10, 0, 0, 100), 2>>, <<Gains(50, 10, 0, 100), 2>>,
                  <<Gains(200, 0, 0, 100), 50>>}

\* deviations of -0.5, 0.0 and 0.5
Deviations == {-50, 0, 50}

\* positions handed to reset, all within [-100, 100]
ResetPositions == {-100, 0, 40}

NextUnit ==
    \/ \E gains \in PidGains : PidConstruct(gains)
    \/ \E error \in PidErrors, elapsed \in Elapsed : PidUpdateCall(error, elapsed)
    \/ PidResetCall
    \/ \E build \in TrackerBuilds : TrackerConstruct(build[1], build[2])
    \/ \E deviation \in Deviations, elapsed \in Elapsed :
          TrackerUpdateCall(deviation, elapsed)
    \/ \E position \in ResetPositions : TrackerResetCall(position)

SpecUnit == Init /\ [][NextUnit]_vars

\* C31: PIDController.reset() leaves the controller as a freshly constructed
\* one (integral 0, previous error 0, no previous timestamp), and the first
\* update(e) after construction or reset takes the elapsed time as zero and
\* returns exactly kp * e, whatever updates came before the reset.
C31_ResetIsFresh ==
    [][/\ (unit'.kind = "pid" /\ unit'.op = "reset") => unit'.pid = PidFresh
       /\ (/\ unit.kind = "pid" /\ unit'.kind = "pid"
           /\ unit.op \in {"construct", "reset"}
           /\ unit'.op = "update")
          => /\ unit'.out = unit.gains.kp * unit'.arg
             /\ unit'.pid.integral = 0]_vars

\* a controller with all three gains is reset after its integral and previous
\* error had become non-zero, and then updated
C31_Witness ==
    /\ unit.kind = "pid"
    /\ unit.gains = Gains(1, 1, 1, 300)
    /\ unit.op = "update"
    /\ unit.arg = 100
    /\ unit.out = 100
    /\ unit.pid = [integral |-> 0, prev_error |-> 100, prev_time |-> "stamped"]

\* C32: anti-windup. After every update the accumulated integral lies within
\* [-integral_limit, integral_limit], so the integral term of the output is at
\* most ki * integral_limit in magnitude (read off the output where kd = 0).
C32_AntiWindup ==
    (unit.kind \in {"pid", "tracker"} /\ unit.op = "update") =>
        /\ -unit.gains.integral_limit <= unit.pid.integral
        /\ unit.pid.integral <= unit.gains.integral_limit
        /\ (unit.kind = "pid" /\ unit.gains.kd = 0) =>
              Abs(unit.out - unit.gains.kp * unit.arg)
                  <= unit.gains.ki * unit.gains.integral_limit

\* kp=0, ki=1, kd=0, integral_limit=5: an update with error 100, elapsed time
\* included, returns 5 and leaves the integral at the limit
C32_Witness ==
    /\ unit.kind = "pid"
    /\ unit.gains = Gains(0, 1, 0, 500)
    /\ unit.op = "update"
    /\ unit.arg = 10000
    /\ unit.pid.integral = 500
    /\ unit.out = 500

\* C33: PanTracker hold. update(0.0) returns the held position unchanged,
\* whatever updates came before the call.
C33_HoldAtZero ==
    [][(/\ unit.kind = "tracker" /\ unit'.kind = "tracker"
        /\ unit'.op = "update" /\ unit'.arg = 0)
       => /\ unit'.position = unit.position
          /\ unit'.out = unit.position]_vars

\* two successive update calls of one tracker with the same positive deviation
SameDeviationAgain ==
    /\ unit.kind = "tracker" /\ unit'.kind = "tracker"
    /\ unit.op = "update" /\ unit'.op = "update"
    /\ unit.arg > 0 /\ unit'.arg = unit.arg

-----------------------------------------------------------------------------
(* on_manual_input called directly, next to manual axis input, the toggle    *)
(* button and the ticks (test_manual_input_when_inactive_is_noop)            *)

NextOverride ==
    \/ \E index \in {DRIVE_AXIS, PAN_AXIS} : OnAxis(index, 500)
    \/ OnButton(BUTTON_A, TRUE)
    \/ OnManualInput
    \/ \E elapsed \in Elapsed : Tick(elapsed, elapsed)
    \/ \E matches \in {<<>>, <<DetLeft>>} : ReadDetections(matches)

SpecOverride == Init /\ [][NextOverride]_vars

\* C36: on_manual_input() on an inactive coordinator changes nothing: active,
\* the scan state, the pan tracker's position, both PID states and the four
\* desired-state values are as they were.
C36_InactiveManualInputNoop ==
    [][(OnManualInput /\ ~active) =>
          /\ UNCHANGED <<active, scanning, scan_position, scan_direction>>
          /\ UNCHANGED <<pan_tracker, follower>>
          /\ UNCHANGED desired_state]_vars

\* on_manual_input has returned on an inactive coordinator whose desired
\* state holds manual drive and pan values
C36_Witness ==
    /\ last_op = Op("on_manual_input", "noop")
    /\ ~active
    /\ desired_state.pan = -50
    /\ desired_state.drive = -50

-----------------------------------------------------------------------------
(* on_axis of one DesiredStateUpdater called from two threads (pi_car main:  *)
(* the socket server and the camera server share updater.on_axis). The       *)
(* `with self._lock` block is one step; each setter call after it is one     *)
(* step under DesiredDriveState._lock.                                       *)

outside_mapper ==
    <<coordinator, pan_tracker, follower, detections, threads, last_op,
      state_lock, snap, setter, actuator, network, lifecycle, remote, probe, unit>>

\* on_axis from the deadzone to the end of `with self._lock`: the raw update
\* and the thread's copies drive, steer, pan, tilt; an unknown index returns
MapperLocked(t, index, value) ==
    /\ axis_threads[t].pc = "idle"
    /\ IF ~RecognisedAxis(index)
       THEN UNCHANGED <<raw, axis_threads>>
       ELSE LET r == RawAfter(raw, index, Deadzone(value))
            IN  /\ raw' = r
                /\ axis_threads' =
                      [axis_threads EXCEPT ![t] =
                          [AxisThreadIdle EXCEPT !.pc = "set_drive",
                                                 !.drive = r.drive,
                                                 !.steer = r.steer,
                                                 !.pan = r.pan,
                                                 !.tilt = r.tilt]]
    /\ UNCHANGED desired_state
    /\ UNCHANGED outside_mapper

\* `self.desired_state.set_drive_percent(scale_axis(drive))`
MapperSetDrive(t) ==
    /\ axis_threads[t].pc = "set_drive"
    /\ desired_state' = set_drive_percent(desired_state,
                                          scale_axis(axis_threads[t].drive))
    /\ axis_threads' = [axis_threads EXCEPT ![t].pc = "set_steer"]
    /\ UNCHANGED raw
    /\ UNCHANGED outside_mapper

\* `self.desired_state.set_steer_percent(scale_axis(steer))`
MapperSetSteer(t) ==
    /\ axis_threads[t].pc = "set_steer"
    /\ desired_state' = set_steer_percent(desired_state,
                                          scale_axis(axis_threads[t].steer))
    /\ axis_threads' = [axis_threads EXCEPT ![t].pc = "set_pan"]
    /\ UNCHANGED raw
    /\ UNCHANGED outside_mapper

\* `self.desired_state.set_pan_percent(scale_axis(-pan))`
MapperSetPan(t) ==
    /\ axis_threads[t].pc = "set_pan"
    /\ desired_state' = set_pan_percent(desired_state,
                                        scale_axis(-axis_threads[t].pan))
    /\ axis_threads' = [axis_threads EXCEPT ![t].pc = "set_tilt"]
    /\ UNCHANGED raw
    /\ UNCHANGED outside_mapper

\* `self.desired_state.set_tilt_percent(scale_axis(-tilt))` and the return
MapperSetTilt(t) ==
    /\ axis_threads[t].pc = "set_tilt"
    /\ desired_state' = set_tilt_percent(desired_state,
                                         scale_axis(-axis_threads[t].tilt))
    /\ axis_threads' = [axis_threads EXCEPT ![t] = AxisThreadIdle]
    /\ UNCHANGED raw
    /\ UNCHANGED outside_mapper

MapperIndices == {DRIVE_AXIS, PAN_AXIS, 7}

MapperValues == {-1000, 500}

NextMapper ==
    \/ \E t \in AxisThreads, index \in MapperIndices, value \in MapperValues :
          MapperLocked(t, index, value)
    \/ \E t \in AxisThreads : MapperSetDrive(t)
    \/ \E t \in AxisThreads : MapperSetSteer(t)
    \/ \E t \in AxisThreads : MapperSetPan(t)
    \/ \E t \in AxisThreads : MapperSetTilt(t)

SpecMapper == Init /\ [][NextMapper]_vars

\* the desired state that on_axis derives from the raw axis values
Mapped(r) ==
    [drive |-> scale_axis(r.drive), steer |-> scale_axis(r.steer),
     pan |-> scale_axis(-r.pan), tilt |-> scale_axis(-r.tilt)]

\* C37: no lost axis update. Once every on_axis call of the threads has
\* returned, the desired state equals the mapping of the mapper's raw axis
\* values: the writes of an earlier-computed call never replace those of a
\* later-computed call.
C37_NoLostAxisUpdate ==
    (\A t \in AxisThreads : axis_threads[t].pc = "idle") =>
        desired_state = Mapped(raw)

-----------------------------------------------------------------------------
(* The coordinator's loop thread keeps ticking: _loop calls _tick and waits  *)
(* 1 / update_hz, again and again, until stop() sets the stop event. The     *)
(* fairness is stated for the iterations that find no detections, which is   *)
(* all the sweep needs.                                                      *)

\* one iteration of _loop
LoopTick == \E elapsed \in Elapsed : Tick(elapsed, elapsed)

NextScan ==
    \/ OnButton(BUTTON_A, TRUE)
    \/ LoopTick
    \/ \E matches \in {<<>>, <<DetLeft>>, <<DetRight>>} : ReadDetections(matches)

\* an iteration of _loop that finds the detector's list empty
LoopTickEmpty == detections = <<>> /\ LoopTick

SpecScan == Init /\ [][NextScan]_vars /\ WF_vars(LoopTickEmpty)

\* C38: scan sweep liveness. If the coordinator stays active and the detector
\* keeps reporting no detections, the ticks write pan = +100 and pan = -100
\* to the desired state, each again and again.
C38_ScanSweeps ==
    <>[](active /\ detections = <<>>) =>
        /\ []<>(desired_state.pan = 100 /\ scan_position = 100)
        /\ []<>(desired_state.pan = -100 /\ scan_position = -100)

\* a sweep that has reversed at +100 stands at -100, heading right again,
\* after passing through the tracked position range
C38_Witness ==
    /\ active /\ scanning /\ detections = <<>>
    /\ last_op = Op("tick", "scan")
    /\ scan_position = -100 /\ scan_direction = 1
    /\ desired_state.pan = -100

-----------------------------------------------------------------------------
(* The actuator loop that keeps running: serve_forever polls every           *)
(* poll_interval until stop() is called, so a poll that has something to     *)
(* push is taken eventually.                                                 *)

NextPolling ==
    \/ \E kind \in ControllerKinds : ServeForever(kind)
    \/ Poll
    \/ ControllerStop
    \/ LoopExit
    \/ SetDrive(40)
    \/ SetSteer(-150)
    \/ SetPan(40)
    \/ SetTilt(-150)

SpecPolling == Init /\ [][NextPolling]_vars /\ WF_vars(Poll)

\* the axes the loops are required to serve: steer and drive always, pan for
\* the crawler and for a PiCar with gimbal, tilt for a PiCar with gimbal
Served(kind) ==
    CASE kind = "crawler" -> {"steer", "drive", "pan"}
      [] kind = "picar" -> {"steer", "drive", "pan", "tilt"}
      [] kind = "picar_no_gimbal" -> {"steer", "drive"}

\* the value pushed last to every served actuator is the desired value
UpToDate ==
    \A slot \in Served(controller.kind) :
        hw[slot] = SomeValue(desired_state[slot])

\* C39: actuator eventual consistency. Every poll leaves the last value pushed
\* to each served actuator equal to the desired value of its axis, and if the
\* desired state stops changing while the loop keeps running, the pushed
\* values equal the desired values from some poll on, for good.
C39_EventuallyPushed ==
    /\ [][Poll => UpToDate']_vars
    /\ (/\ <>[][desired_state' = desired_state]_vars
        /\ <>[](controller.pc = "loop" /\ ~controller.stop))
       => <>[]UpToDate

\* a PiCar loop with gimbal has pushed a change of drive and tilt made after
\* its first poll
C39_Witness ==
    /\ controller.pc = "loop" /\ controller.kind = "picar"
    /\ last_op = Op("poll", "picar")
    /\ desired_state = [drive |-> 40, steer |-> 0, pan |-> 0, tilt |-> -100]
    /\ hw_calls = <<[setter |-> "set_drive_percent", value |-> 40],
                    [setter |-> "set_tilt_percent", value |-> -100]>>
    /\ UpToDate

-----------------------------------------------------------------------------
(* stop() against the start of serve_forever (crawler main: the controller   *)
(* thread is started, and the main thread's `finally` calls                  *)
(* controller.stop() and then joins it). The thread start and the first      *)
(* statement of serve_forever are separate steps here.                       *)

\* `controller_thread.start()`: the thread exists, serve_forever has not run
\* its first statement yet
ControllerLaunch(kind) ==
    /\ controller.pc = "idle"
    /\ controller' = [controller EXCEPT !.pc = "launched", !.kind = kind]
    /\ last_op' = Op("launch", kind)
    /\ UNCHANGED <<follow_state, desired_state, state_lock, snap, setter, hw, hw_calls>>
    /\ UNCHANGED <<network, lifecycle, remote, probe, unit, axis_threads>>

\* serve_forever from `self._stop_event.clear()` to the loop
ControllerEnter ==
    /\ controller.pc = "launched"
    /\ controller' = [controller EXCEPT
                          !.pc = "loop", !.stop = FALSE,
                          !.last = [drive |-> NoValue, steer |-> NoValue,
                                    pan |-> NoValue, tilt |-> NoValue]]
    /\ last_op' = Op("serve_forever", controller.kind)
    /\ UNCHANGED <<follow_state, desired_state, state_lock, snap, setter, hw, hw_calls>>
    /\ UNCHANGED <<network, lifecycle, remote, probe, unit, axis_threads>>

\* stop() called by the main thread before serve_forever has run its first
\* statement
ControllerStopEarly ==
    /\ controller.pc = "launched"
    /\ ~controller.stop
    /\ controller' = [controller EXCEPT !.stop = TRUE]
    /\ last_op' = Op("controller_stop", "")
    /\ UNCHANGED <<follow_state, desired_state, state_lock, snap, setter, hw, hw_calls>>
    /\ UNCHANGED <<network, lifecycle, remote, probe, unit, axis_threads>>

NextStop ==
    \/ \E kind \in ControllerKinds : ControllerLaunch(kind)
    \/ ControllerEnter
    \/ ControllerStopEarly
    \/ ControllerStop
    \/ Poll
    \/ LoopExit
    \/ SetDrive(40)
    \/ SetSteer(-150)
    \/ SetPan(40)

\* the controller thread runs: it enters serve_forever, polls and tests the
\* stop event again and again
SpecStop ==
    /\ Init /\ [][NextStop]_vars
    /\ WF_vars(ControllerEnter) /\ WF_vars(Poll) /\ WF_vars(LoopExit)

\* C40: a stop request to an actuator loop is never lost. Once stop() has
\* been called on a controller whose serve_forever was launched on another
\* thread, serve_forever returns eventually, also when stop() runs before
\* serve_forever executes its first statement.
C40_StopNeverLost ==
    (last_op = Op("controller_stop", "")) ~> (controller.pc = "returned")

====
